---- MODULE Spec2Model ----
(***************************************************************************)
(* Telecom dashboard: the two invoice extractors (VodafoneInvoiceParser,   *)
(* ThreePDFParser), provider detection and the upload handler, and the     *)
(* sqlite storage operations of api.py.                                    *)
(*                                                                         *)
(* Text is modelled by what the regular expressions of the source can see  *)
(* of it: a document is a record of fences, each fence an option (<<>> =   *)
(* the pattern does not match, <<v>> = it matches and captures v).         *)
(* Amounts are fixed-point integers, Unit to the currency unit; the one    *)
(* division of the source (x / 1.2) truncates, which is coarser than the   *)
(* float rounding it stands for.                                           *)
(***************************************************************************)
EXTENDS Integers, Sequences, FiniteSets, TLC

VARIABLES
  parser,        \* class of the extractor object: "Vodafone" or "Three"
  full_text,     \* the flattened document text handed to the recognizers
  invoice_data,  \* self.invoice_data of the extractor object
  pc,            \* position of parse()
  sec,           \* _parse_cost_centres: index of the section being walked
  row,           \* _parse_cost_centres: index of the next row match
  today,         \* the day datetime.now() reports
  run,           \* number of the parse run over full_text (1 or 2)
  first,         \* outcome of the first run
  other,         \* a second extractor object, parsing at the same time
  date_call,     \* one call of _parse_date: the class, the argument, the result
  imp,           \* the imports under way, one to a database connection
  upc,           \* position of upload_invoice
  filename,      \* file.filename, as its pieces between the dots
  overwrite,     \* the overwrite flag of the request
  tmp_files,     \* names of the temporary files on disk
  tmp_path,      \* name of the request's temporary file, 0 when it has none
  first_page,    \* text of the first page, as the marker words it holds
  provider,      \* the provider detected
  data,          \* the record parser.parse() returned
  db,            \* committed content of the sqlite database
  existing,      \* import_invoice_to_db: id the SELECT found, 0 for None
  invoice_id,    \* id import_invoice_to_db returned
  resp           \* the response to the last request

uploadVars == <<upc, filename, overwrite, tmp_files, tmp_path, first_page, provider,
                data, db, existing, invoice_id, resp>>

vars == <<parser, full_text, invoice_data, pc, sec, row, today, run, first, other,
          date_call, imp,
          upc, filename, overwrite, tmp_files, tmp_path, first_page, provider,
          data, db, existing, invoice_id, resp>>

----------------------------------------------------------------------------
(* Bounds of the model *)

MaxSections == 2
MaxRows == 2
MaxDay == 2

----------------------------------------------------------------------------
(* Python values *)

None == <<>>
Some(v) == <<v>>

\* dict.get(k, dflt)
Get(d, k, dflt) == IF k \in DOMAIN d THEN d[k] ELSE dflt

\* d[k] = v
Put(d, k, v) == [x \in (DOMAIN d) \cup {k} |-> IF x = k THEN v ELSE d[x]]

\* str.replace(' ', '') on a string held as a sequence of pieces
RemoveSpaces(s) == SelectSeq(s, LAMBDA p : p # " ")

\* Amounts: Unit is 1.00, Pence is 0.01
Unit == 100 * 100
Pence == Unit \div 100
Tolerance == Pence

Abs(x) == IF x < 0 THEN -x ELSE x

----------------------------------------------------------------------------
(* Dates. A date token of the text is [day, mon, year, ydigits, sep]: the  *)
(* day number, the month as written, the year number and how many digits   *)
(* it is written with, and the separator between the three parts ("" when  *)
(* they are written without one). A normalised date is what                *)
(* strftime('%Y-%m-%d') prints; a token that no layout parses is carried   *)
(* as the text itself.                                                     *)

MonthAbbr == <<"Jan", "Feb", "Mar", "Apr", "May", "Jun",
               "Jul", "Aug", "Sep", "Oct", "Nov", "Dec">>
MonthFull == <<"January", "February", "March", "April", "May", "June",
               "July", "August", "September", "October", "November", "December">>
MonthDigits == <<"01", "02", "03", "04", "05", "06",
                 "07", "08", "09", "10", "11", "12">>

InTable(t, m) == \E i \in 1..12 : t[i] = m
IndexIn(t, m) == CHOOSE i \in 1..12 : t[i] = m

IsLeap(y) == (y % 4 = 0 /\ y % 100 # 0) \/ y % 400 = 0
DaysInMonth(y, m) ==
  IF m \in {4, 6, 9, 11} THEN 30
  ELSE IF m = 2 THEN (IF IsLeap(y) THEN 29 ELSE 28)
  ELSE 31

\* %y of strptime: 00..68 are 2000..2068, 69..99 are 1969..1999
Year2(yy) == IF yy <= 68 THEN 2000 + yy ELSE 1900 + yy

IsoDate(y, m, d) == [iso |-> TRUE, y |-> y, m |-> m, d |-> d, text |-> None]
RawDate(tok) == [iso |-> FALSE, y |-> 0, m |-> 0, d |-> 0, text |-> Some(tok)]

\* datetime.strptime(tok, layout): the layout is given by its month table,
\* its year width and its separator; the result is <<>> for ValueError
Strptime(tok, months, ydigits, sep) ==
  IF /\ tok.sep = sep
     /\ tok.ydigits = ydigits
     /\ InTable(months, tok.mon)
  THEN LET m == IndexIn(months, tok.mon)
           y == IF ydigits = 2 THEN Year2(tok.year) ELSE tok.year
       IN  IF y >= 1 /\ tok.day >= 1 /\ tok.day <= DaysInMonth(y, m)
           THEN Some([y |-> y, m |-> m, d |-> tok.day])
           ELSE None
  ELSE None

\* datetime.now().strftime('%Y-%m-%d')
Now(t) == IsoDate(2026, 11, t)

----------------------------------------------------------------------------
(* VodafoneInvoiceParser *)

Vodafone_init ==
  [metadata |-> <<>>, cost_centres |-> <<>>, mobiles |-> <<>>, summary |-> <<>>]

Vodafone_parse_date(date_str) ==
  LET \* date_str.replace(' ', '')
      s == IF date_str.sep = " " THEN [date_str EXCEPT !.sep = ""] ELSE date_str
      a1 == Strptime(s, MonthAbbr, 2, "")
      \* the second attempt puts the spaces back, where digits, letters and
      \* digits follow one another, and parses '%d %b %y'
      a2 == IF s.sep = ""
            THEN Strptime([s EXCEPT !.sep = " "], MonthAbbr, 2, " ")
            ELSE None
      a3 == Strptime(s, MonthFull, 4, "")
  IN  IF a1 # None THEN IsoDate(a1[1].y, a1[1].m, a1[1].d)
      ELSE IF a2 # None THEN IsoDate(a2[1].y, a2[1].m, a2[1].d)
      ELSE IF a3 # None THEN IsoDate(a3[1].y, a3[1].m, a3[1].d)
      ELSE RawDate(s)

\* not metadata.get('invoice_number')
NoInvoiceNumber(metadata) == Get(metadata, "invoice_number", "") = ""

Vodafone_parse_metadata(inv, text) ==
  LET h == text.header
      m0 == inv.metadata
      \* the labelled pattern has three groups, the bare one four
      m1 == IF h.kind = "labelled"
            THEN Put(Put(Put(m0, "account_number", RemoveSpaces(h.account)),
                         "invoice_number", h.number),
                     "invoice_date", Vodafone_parse_date(h.date))
            ELSE IF h.kind = "bare"
            THEN Put(Put(Put(m0, "account_number", RemoveSpaces(<<h.account[1]>>)),
                         "invoice_number", h.number),
                     "invoice_date", Vodafone_parse_date(h.date))
            ELSE m0
      m2 == IF NoInvoiceNumber(m1) /\ h.kind = "hardcoded"
            THEN Put(Put(Put(m1, "account_number", <<"670241213", "/", "00001">>),
                         "invoice_number", "109300963"),
                     "invoice_date", IsoDate(2025, 12, 15))
            ELSE m1
      m3 == IF text.total # None THEN Put(m2, "total_amount", text.total[1]) ELSE m2
      m4 == IF text.due # None
            THEN Put(m3, "payment_due_date", Vodafone_parse_date(text.due[1]))
            ELSE m3
  IN  [inv EXCEPT !.metadata = Put(m4, "provider", "Vodafone")]

Vodafone_parse_quick_breakdown(inv, text) ==
  LET s0 == inv.summary
      s1 == IF text.for_mobiles # None
            THEN Put(s0, "total_mobiles", text.for_mobiles[1]) ELSE s0
      s2 == IF text.ecs # None
            THEN Put(s1, "ecs_extra_advisor", text.ecs[1]) ELSE s1
      s3 == IF text.unallocated # None
            THEN Put(s2, "unallocated_mobiles", text.unallocated[1]) ELSE s2
  IN  [inv EXCEPT !.summary = s3]

\* re.match(r'([A-Z0-9]+)', lines[0])
CostCentreIds == {"A", "B"}
cost_centre_match(section) == section.id \in CostCentreIds

Vodafone_init_cost_centre(inv, id) ==
  IF id \in DOMAIN inv.cost_centres THEN inv
  ELSE [inv EXCEPT !.cost_centres =
          Put(@, id, [mobiles |-> <<>>, total_service |-> 0, total_usage |-> 0,
                      total_additional |-> 0, total_amount |-> 0])]

\* Vodafone_signed with the credit marker ignored
Vodafone_signed_ignores_cr(cr, figure) == figure

\* a figure with its optional 'cr' marker
Vodafone_signed(cr, figure) == IF cr THEN -figure ELSE figure

\* the first line of a section, which starts with the identifier
FirstLine(id) ==
  CASE id = "A" -> "A mobile service usage additional total"
    [] id = "B" -> "B mobile service usage additional total"
    [] OTHER -> id

\* Vodafone_mobile_entry that files the row under the whole first line of the
\* section in place of the identifier matched in it
Vodafone_mobile_entry_first_line(m, id) ==
  [mobile_number |-> RemoveSpaces(m.mobile_number),
   user_name |-> m.user_name,
   cost_centre |-> FirstLine(id),
   service_charge |-> m.service,
   usage_charge |-> m.usage,
   additional_charge |-> IF m.add_cr THEN -m.additional ELSE m.additional,
   total_charge |-> IF m.tot_cr THEN -m.total ELSE m.total]

Vodafone_mobile_entry(m, id) ==
  [mobile_number |-> RemoveSpaces(m.mobile_number),
   user_name |-> m.user_name,
   cost_centre |-> id,
   service_charge |-> m.service,
   usage_charge |-> m.usage,
   additional_charge |-> Vodafone_signed(m.add_cr, m.additional),
   total_charge |-> Vodafone_signed(m.tot_cr, m.total)]

\* Vodafone_add_mobile that leaves the row out of the cost centre's own list
Vodafone_add_mobile_global_list_only(inv, id, e) ==
  [inv EXCEPT
     !.mobiles = Append(@, e),
     !.cost_centres[id].total_service = @ + e.service_charge,
     !.cost_centres[id].total_usage = @ + e.usage_charge,
     !.cost_centres[id].total_additional = @ + e.additional_charge,
     !.cost_centres[id].total_amount = @ + e.total_charge]

Vodafone_add_mobile(inv, id, e) ==
  [inv EXCEPT
     !.cost_centres[id].mobiles = Append(@, e),
     !.mobiles = Append(@, e),
     !.cost_centres[id].total_service = @ + e.service_charge,
     !.cost_centres[id].total_usage = @ + e.usage_charge,
     !.cost_centres[id].total_additional = @ + e.additional_charge,
     !.cost_centres[id].total_amount = @ + e.total_charge]

Vodafone_verified_totals(inv, id, t) ==
  [inv EXCEPT
     !.cost_centres[id].total_service = t.service,
     !.cost_centres[id].total_usage = t.usage,
     !.cost_centres[id].total_additional = Vodafone_signed(t.add_cr, t.additional),
     !.cost_centres[id].total_amount = Vodafone_signed(t.tot_cr, t.total)]

\* DivideBy1_2 that takes a fifth off the gross figure
DivideBy1_2_takes_off_a_fifth(x) == (x * 8) \div 10

\* before_vat / 1.2
DivideBy1_2(x) == (x * 10) \div 12

\* get_cost_centres_dataframe_dict(): one entry for each cost centre
get_cost_centres_dataframe_dict(inv) ==
  [c \in DOMAIN inv.cost_centres |->
     [cost_centre |-> c,
      mobile_count |-> Len(inv.cost_centres[c].mobiles),
      total_service |-> inv.cost_centres[c].total_service,
      total_usage |-> inv.cost_centres[c].total_usage,
      total_additional |-> inv.cost_centres[c].total_additional,
      total_amount |-> inv.cost_centres[c].total_amount]]

\* Vodafone_parse_vat_summary with the recovery branch leaving total_amount as
\* the metadata recognizer set it
Vodafone_parse_vat_summary_keeps_total(inv, text) ==
  LET s0 == inv.summary
      s1 == IF text.before_vat # None
            THEN Put(s0, "total_before_vat", text.before_vat[1]) ELSE s0
      s2 == IF text.vat_20 # None
            THEN Put(Put(s1, "vat_20_base", text.vat_20[1].base),
                     "vat_20_amount", text.vat_20[1].amount)
            ELSE s1
      s3 == IF text.vat_0 # None
            THEN Put(Put(s2, "vat_0_base", text.vat_0[1].base),
                     "vat_0_amount", text.vat_0[1].amount)
            ELSE s2
      before_vat == Get(s3, "total_before_vat", 0)
      vat == Get(s3, "vat_20_amount", 0) + Get(s3, "vat_0_amount", 0)
      actual_net == DivideBy1_2(before_vat)
  IN  IF vat = 0 /\ before_vat > 0
      THEN [inv EXCEPT
              !.summary = Put(Put(s3, "vat_20_amount", before_vat - actual_net),
                              "total_before_vat", actual_net)]
      ELSE [inv EXCEPT
              !.summary = s3,
              !.metadata = Put(@, "total_amount", before_vat + vat)]

Vodafone_parse_vat_summary(inv, text) ==
  LET s0 == inv.summary
      s1 == IF text.before_vat # None
            THEN Put(s0, "total_before_vat", text.before_vat[1]) ELSE s0
      s2 == IF text.vat_20 # None
            THEN Put(Put(s1, "vat_20_base", text.vat_20[1].base),
                     "vat_20_amount", text.vat_20[1].amount)
            ELSE s1
      s3 == IF text.vat_0 # None
            THEN Put(Put(s2, "vat_0_base", text.vat_0[1].base),
                     "vat_0_amount", text.vat_0[1].amount)
            ELSE s2
      before_vat == Get(s3, "total_before_vat", 0)
      vat == Get(s3, "vat_20_amount", 0) + Get(s3, "vat_0_amount", 0)
      actual_net == DivideBy1_2(before_vat)
  IN  IF vat = 0 /\ before_vat > 0
      THEN [inv EXCEPT
              !.summary = Put(Put(s3, "vat_20_amount", before_vat - actual_net),
                              "total_before_vat", actual_net),
              !.metadata = Put(@, "total_amount", before_vat)]
      ELSE [inv EXCEPT
              !.summary = s3,
              !.metadata = Put(@, "total_amount", before_vat + vat)]

----------------------------------------------------------------------------
(* ThreePDFParser *)

Three_init ==
  [metadata |-> [provider |-> "Three"], summary |-> <<>>, mobiles |-> <<>>,
   cost_centres |-> <<>>]

\* the seven layouts, in the order they are tried: month table, year width,
\* separator
Three_formats ==
  << [months |-> MonthAbbr,   ydigits |-> 2, sep |-> " "],
     [months |-> MonthFull,   ydigits |-> 2, sep |-> " "],
     [months |-> MonthAbbr,   ydigits |-> 4, sep |-> " "],
     [months |-> MonthFull,   ydigits |-> 4, sep |-> " "],
     [months |-> MonthAbbr,   ydigits |-> 2, sep |-> "-"],
     [months |-> MonthDigits, ydigits |-> 2, sep |-> "/"],
     [months |-> MonthDigits, ydigits |-> 4, sep |-> "/"] >>

Three_try_format(date_str, i) ==
  Strptime(date_str, Three_formats[i].months, Three_formats[i].ydigits,
           Three_formats[i].sep)

\* Three_parse_date that hands an unparsed string back, as the Vodafone
\* _parse_date does
Three_parse_date_returns_input(date_str, now) ==
  LET ok == {i \in 1..Len(Three_formats) : Three_try_format(date_str, i) # None}
  IN  IF ok = {} THEN RawDate(date_str)
      ELSE LET i == CHOOSE j \in ok : \A k \in ok : j <= k
               dt == Three_try_format(date_str, i)[1]
           IN  IF dt.y < 2000 THEN IsoDate(dt.y + 2000, dt.m, dt.d)
               ELSE IsoDate(dt.y, dt.m, dt.d)

Three_parse_date(date_str, now) ==
  LET ok == {i \in 1..Len(Three_formats) : Three_try_format(date_str, i) # None}
  IN  IF ok = {} THEN Now(now)
      ELSE LET i == CHOOSE j \in ok : \A k \in ok : j <= k
               dt == Three_try_format(date_str, i)[1]
           IN  IF dt.y < 2000 THEN IsoDate(dt.y + 2000, dt.m, dt.d)
               ELSE IsoDate(dt.y, dt.m, dt.d)

\* Three_parse_header with the default date written whether or not a date
\* was read from the text
Three_parse_header_always_defaults(inv, text, now) ==
  LET s1 == IF text.connections # None
            THEN Put(inv.summary, "total_mobiles", text.connections[1])
            ELSE inv.summary
      m0 == inv.metadata
      m1 == IF text.bill # None THEN Put(m0, "invoice_number", text.bill[1]) ELSE m0
      m2 == IF text.account # None
            THEN Put(m1, "account_number", text.account[1]) ELSE m1
  IN  [inv EXCEPT !.summary = s1, !.metadata = Put(m2, "invoice_date", Now(now))]

Three_parse_header(inv, text, now) ==
  LET s1 == IF text.connections # None
            THEN Put(inv.summary, "total_mobiles", text.connections[1])
            ELSE inv.summary
      m0 == inv.metadata
      m1 == IF text.bill # None THEN Put(m0, "invoice_number", text.bill[1]) ELSE m0
      m2 == IF text.account # None
            THEN Put(m1, "account_number", text.account[1]) ELSE m1
      m3 == IF text.date # None
            THEN Put(m2, "invoice_date", Three_parse_date(text.date[1], now))
            ELSE m2
      m4 == IF "invoice_date" \notin DOMAIN m3
            THEN Put(m3, "invoice_date", Now(now)) ELSE m3
  IN  [inv EXCEPT !.summary = s1, !.metadata = m4]

Three_parse_summary(inv, text) ==
  LET s0 == inv.summary
      s1 == IF text.recurring # None
            THEN Put(s0, "recurring_charges", text.recurring[1]) ELSE s0
      s2 == IF text.usage # None
            THEN Put(s1, "usage_charges", text.usage[1]) ELSE s1
      s3 == IF text.before_vat # None
            THEN Put(s2, "total_before_vat", text.before_vat[1]) ELSE s2
  IN  [inv EXCEPT !.summary = s3]

\* Three_parse_vat with the net charges written over a total already read
Three_parse_vat_net_overrides(inv, text) ==
  LET s0 == inv.summary
      s1 == IF text.vat_0 # None
            THEN Put(Put(s0, "vat_0_base", text.vat_0[1].base),
                     "vat_0_amount", text.vat_0[1].amount)
            ELSE s0
      s2 == IF text.vat_20 # None
            THEN Put(Put(s1, "vat_20_base", text.vat_20[1].base),
                     "vat_20_amount", text.vat_20[1].amount)
            ELSE s1
      m0 == inv.metadata
      m1 == IF text.after_vat # None
            THEN Put(m0, "total_amount", text.after_vat[1]) ELSE m0
      m2 == IF text.net # None THEN Put(m1, "total_amount", text.net[1]) ELSE m1
      calculated_total == Get(s2, "total_before_vat", 0)
                          + Get(s2, "vat_20_amount", 0) + Get(s2, "vat_0_amount", 0)
      m3 == IF "total_amount" \notin DOMAIN m2 \/ Get(m2, "total_amount", 0) = 0
            THEN Put(m2, "total_amount", calculated_total) ELSE m2
  IN  [inv EXCEPT !.summary = s2, !.metadata = m3]

Three_parse_vat(inv, text) ==
  LET s0 == inv.summary
      s1 == IF text.vat_0 # None
            THEN Put(Put(s0, "vat_0_base", text.vat_0[1].base),
                     "vat_0_amount", text.vat_0[1].amount)
            ELSE s0
      s2 == IF text.vat_20 # None
            THEN Put(Put(s1, "vat_20_base", text.vat_20[1].base),
                     "vat_20_amount", text.vat_20[1].amount)
            ELSE s1
      m0 == inv.metadata
      m1 == IF text.after_vat # None
            THEN Put(m0, "total_amount", text.after_vat[1]) ELSE m0
      m2 == IF text.net # None /\ "total_amount" \notin DOMAIN m1
            THEN Put(m1, "total_amount", text.net[1]) ELSE m1
      calculated_total == Get(s2, "total_before_vat", 0)
                          + Get(s2, "vat_20_amount", 0) + Get(s2, "vat_0_amount", 0)
      m3 == IF "total_amount" \notin DOMAIN m2 \/ Get(m2, "total_amount", 0) = 0
            THEN Put(m2, "total_amount", calculated_total) ELSE m2
  IN  [inv EXCEPT !.summary = s2, !.metadata = m3]

\* Three_required_present without the check of the invoice number
Three_required_skips_number(inv) ==
  /\ "invoice_date" \in DOMAIN inv.metadata
  /\ Get(inv.metadata, "total_amount", 0) # 0

\* Three_required_present with the total tested for being there, not for
\* being other than 0
Three_required_total_key_only(inv) ==
  /\ ~NoInvoiceNumber(inv.metadata)
  /\ "invoice_date" \in DOMAIN inv.metadata
  /\ "total_amount" \in DOMAIN inv.metadata

\* the three checks that end ThreePDFParser.parse: TRUE when none raises
Three_required_present(inv) ==
  /\ ~NoInvoiceNumber(inv.metadata)
  /\ "invoice_date" \in DOMAIN inv.metadata
  /\ Get(inv.metadata, "total_amount", 0) # 0

----------------------------------------------------------------------------
(* Documents the parse runs are given *)

P(n) == n * Pence

Tok(d, mon, y, yd, sep) == [day |-> d, mon |-> mon, year |-> y, ydigits |-> yd, sep |-> sep]

VodafoneDateTokens(sep) ==
  { Tok(15, "Dec", 25, 2, sep), Tok(15, "December", 2025, 4, sep),
    Tok(15, "Dec", 2025, 4, sep) }

VodafoneHeaders ==
     { [kind |-> "labelled", account |-> <<"670241213", " ", "/", " ", "00001">>,
        number |-> "INV1", date |-> t] : t \in VodafoneDateTokens(" ") }
  \cup
     { [kind |-> "bare", account |-> <<"670241213", "/", "00001">>,
        number |-> "INV1", date |-> t] : t \in VodafoneDateTokens("") }
  \cup
     { [kind |-> k, account |-> <<>>, number |-> "", date |-> Tok(15, "Dec", 25, 2, " ")]
         : k \in {"hardcoded", "none"} }

PlainHeader ==
  [kind |-> "labelled", account |-> <<"670241213", " ", "/", " ", "00001">>,
   number |-> "INV1", date |-> Tok(15, "Dec", 25, 2, " ")]

\* the rows the mobile pattern matches
MobileRows ==
  { [mobile_number |-> <<"07345", " ", "466207">>, user_name |-> None,
     service |-> P(660), usage |-> 0, add_cr |-> FALSE, additional |-> 0,
     tot_cr |-> FALSE, total |-> P(660)],
    [mobile_number |-> <<"07700", " ", "900123">>, user_name |-> Some("MR A SMITH"),
     service |-> P(500), usage |-> P(100), add_cr |-> TRUE, additional |-> P(800),
     tot_cr |-> TRUE, total |-> P(200)] }

\* the figures of a 'Total for cost centre <id> before VAT' line
StatedTotals ==
  { [service |-> P(1200), usage |-> P(100), add_cr |-> TRUE, additional |-> P(300),
     tot_cr |-> FALSE, total |-> P(1000)] }

RowSeqs(n) == UNION { [1..k -> MobileRows] : k \in 0..n }

\* a 'Cost centre ' section: the identifier its first line starts with, its
\* rows, its total line; "b" is an identifier the pattern does not match,
\* and nothing of such a section is read
Sections(n) ==
  { [id |-> i, rows |-> rs, total |-> t] :
      i \in CostCentreIds, rs \in RowSeqs(n),
      t \in {None} \cup {Some(x) : x \in StatedTotals} }
  \cup { [id |-> "b", rows |-> <<>>, total |-> None] }

RECURSIVE SectionSeqs(_, _)
\* the sequences of k sections that hold at most n rows between them
SectionSeqs(k, n) ==
  IF k = 0 THEN { <<>> }
  ELSE UNION { { <<s>> \o rest : rest \in SectionSeqs(k - 1, n - Len(s.rows)) }
                 : s \in Sections(n) }

VodafoneDoc(h, tot, due, nm, ecs, un, secs, bv, v20, v0) ==
  [header |-> h, total |-> tot, due |-> due, for_mobiles |-> nm, ecs |-> ecs,
   unallocated |-> un, sections |-> secs, before_vat |-> bv, vat_20 |-> v20,
   vat_0 |-> v0]

\* documents that differ in the header and quick-breakdown fences
VodafoneHeaderDocs ==
  { VodafoneDoc(h, None, due, nm, ecs, un, <<>>, Some(P(10000)),
                Some([base |-> P(10000), amount |-> P(2000)]), None) :
      h \in VodafoneHeaders,
      due \in {None, Some(Tok(29, "Dec", 25, 2, " "))},
      nm \in {None, Some(150)},
      ecs \in {None, Some(P(500))},
      un \in {None, Some(P(1234))} }

\* documents that differ in the tax fences and the stated total
VodafoneVatDocs ==
  { VodafoneDoc(PlainHeader, tot, None, None, None, None, <<>>, bv, v20, v0) :
      tot \in {None, Some(P(15000))},
      bv \in {None, Some(0), Some(P(12000)), Some(P(10001))},
      v20 \in {None, Some([base |-> P(10000), amount |-> 0]),
               Some([base |-> P(10000), amount |-> P(2000)])},
      v0 \in {None, Some([base |-> P(5000), amount |-> 0]),
              Some([base |-> P(5000), amount |-> P(500)])} }

\* one cost centre with the row '07345 466207 £6.60 £0.00 £0.00 £6.60' and a
\* total line that states the same figures
CostCentreExampleDoc ==
  VodafoneDoc(PlainHeader, None, None, None, None, None,
              << [id |-> "A",
                  rows |-> << CHOOSE m \in MobileRows : ~m.add_cr >>,
                  total |-> Some([service |-> P(660), usage |-> 0, add_cr |-> FALSE,
                                  additional |-> 0, tot_cr |-> FALSE,
                                  total |-> P(660)])] >>,
              None, None, None)

\* documents that differ in the cost-centre sections
VodafoneSectionDocs ==
  { VodafoneDoc(PlainHeader, None, None, None, None, None, secs, None, None, None) :
      secs \in UNION { SectionSeqs(k, MaxRows) : k \in 1..MaxSections } }
  \cup { CostCentreExampleDoc }

VodafoneDocs == VodafoneHeaderDocs \cup VodafoneVatDocs \cup VodafoneSectionDocs

ThreeDoc(c, b, a, d, rec, us, bv, v0, v20, av, net) ==
  [connections |-> c, bill |-> b, account |-> a, date |-> d, recurring |-> rec,
   usage |-> us, before_vat |-> bv, vat_0 |-> v0, vat_20 |-> v20,
   after_vat |-> av, net |-> net]

ThreeDateTokens ==
  { Tok(25, "Jan", 25, 2, " "), Tok(25, "January", 2025, 4, " "),
    Tok(31, "Feb", 25, 2, " ") }

\* documents that differ in the header and summary fences
ThreeHeaderDocs ==
  { ThreeDoc(c, b, a, d, rec, us, Some(P(10000)), None,
             Some([base |-> P(10000), amount |-> P(2000)]), Some(P(12000)), None) :
      c \in {None, Some(1006)},
      b \in {None, Some("B1")},
      a \in {None, Some("ACC1")},
      d \in {None} \cup {Some(t) : t \in ThreeDateTokens},
      rec \in {None, Some(P(9000))},
      us \in {None, Some(P(1000))} }

\* documents that differ in the tax and total fences
ThreeVatDocs ==
  { ThreeDoc(None, Some("B1"), None, Some(Tok(25, "Jan", 25, 2, " ")), None, None,
             bv, v0, v20, av, net) :
      bv \in {None, Some(0), Some(P(10000))},
      v0 \in {None, Some([base |-> P(5000), amount |-> 0])},
      v20 \in {None, Some([base |-> P(10000), amount |-> P(2000)])},
      av \in {None, Some(0), Some(P(12000)), Some(P(15000))},
      net \in {None, Some(0), Some(P(12000))} }

ThreeDocs == ThreeHeaderDocs \cup ThreeVatDocs

----------------------------------------------------------------------------
(* parse() as a whole: the recognizers in the order parse() calls them *)

RECURSIVE Vodafone_scan_mobiles(_, _, _)
\* the loop over mobile_matches, from row k of section s on
Vodafone_scan_mobiles(inv, s, k) ==
  IF k > Len(s.rows) THEN inv
  ELSE Vodafone_scan_mobiles(
         Vodafone_add_mobile(inv, s.id, Vodafone_mobile_entry(s.rows[k], s.id)), s, k + 1)

Vodafone_parse_section(inv, s) ==
  IF ~cost_centre_match(s) THEN inv
  ELSE LET scanned == Vodafone_scan_mobiles(Vodafone_init_cost_centre(inv, s.id), s, 1)
       IN  IF s.total # None
           THEN Vodafone_verified_totals(scanned, s.id, s.total[1])
           ELSE scanned

RECURSIVE Vodafone_parse_cost_centres(_, _, _)
\* the loop over sections[1:], from section k on
Vodafone_parse_cost_centres(inv, text, k) ==
  IF k > Len(text.sections) THEN inv
  ELSE Vodafone_parse_cost_centres(
         Vodafone_parse_section(inv, text.sections[k]), text, k + 1)

Vodafone_parse(inv, text) ==
  Vodafone_parse_vat_summary(
    Vodafone_parse_cost_centres(
      Vodafone_parse_quick_breakdown(Vodafone_parse_metadata(inv, text), text),
      text, 1),
    text)

\* the outcome of ThreePDFParser.parse: the record, or ValueError raised
Three_parse(inv, text, now) ==
  LET parsed == Three_parse_vat(
                  Three_parse_summary(Three_parse_header(inv, text, now), text), text)
  IN  IF Three_required_present(parsed)
      THEN [status |-> "done", data |-> parsed]
      ELSE [status |-> "raised", data |-> parsed]

----------------------------------------------------------------------------
(* Provider detection and the extension check of upload_invoice *)

PageWords == {"Vodafone", "VODAFONE", "Three", "THREE", "Hutchison 3G", "HUTCHISON 3G"}

\* the first page not read
NoPage == {"<unread>"}

\* str.lower()
Lower(w) ==
  CASE w \in {"Vodafone", "VODAFONE"} -> "vodafone"
    [] w \in {"Three", "THREE"} -> "three"
    [] w \in {"Hutchison 3G", "HUTCHISON 3G"} -> "hutchison 3g"
    [] w \in {"pdf", "PDF", "Pdf"} -> "pdf"
    [] OTHER -> w

PageLower(page) == { Lower(w) : w \in page }

HasVodafone(page) == "Vodafone" \in page \/ "vodafone" \in PageLower(page)

\* HasThree without the legal-entity marker
HasThree_brand_only(page) == "Three" \in page

HasThree(page) == "Three" \in page \/ "Hutchison 3G" \in page

\* the provider detected on the first page, "" when ValueError is raised
detect_provider(page) ==
  IF HasVodafone(page) THEN "Vodafone"
  ELSE IF HasThree(page) THEN "Three"
  ELSE ""

\* file.filename.lower().split('.')[-1]
file_extension(name) == Lower(name[Len(name)])

----------------------------------------------------------------------------
(* The sqlite database and import_invoice_to_db. A row of mobile_lines is  *)
(* identified by its invoice and its place among the invoice's lines, in   *)
(* place of the rowid nothing reads.                                       *)

EmptyDb == [invoices |-> {}, mobile_lines |-> {}, cost_centres |-> {}, seq |-> 0]

\* SELECT id FROM invoices WHERE invoice_number = ?  (0 for None)
select_invoice_id(d, number) ==
  IF \E r \in d.invoices : r.invoice_number = number
  THEN (CHOOSE r \in d.invoices : r.invoice_number = number).id
  ELSE 0

\* import_decision with a stored invoice replaced whatever the flag says
import_decision_always_replaces(found, ow) ==
  IF found # 0 THEN "replace" ELSE "insert"

\* what import_invoice_to_db does with the row the SELECT found
import_decision(found, ow) ==
  IF found # 0 /\ ~ow THEN "raise"
  ELSE IF found # 0 /\ ow THEN "replace"
  ELSE "insert"

\* delete_invoice_rows that leaves the dependent rows in place
delete_invoice_row_only(d, id) ==
  [d EXCEPT !.invoices = { r \in @ : r.id # id }]

\* the three DELETEs
delete_invoice_rows(d, id) ==
  [d EXCEPT !.mobile_lines = { r \in @ : r.invoice_id # id },
            !.cost_centres = { r \in @ : r.invoice_id # id },
            !.invoices = { r \in @ : r.id # id }]

\* total_amount as import_invoice_to_db chooses it
import_total_amount(rec) ==
  LET from_metadata == Get(rec.metadata, "total_amount", 0)
      from_summary == Get(rec.summary, "total_amount", 0)
  IN  IF from_metadata # 0 THEN from_metadata
      ELSE IF from_summary # 0 THEN from_summary
      ELSE Get(rec.summary, "total_before_vat", 0)
           + Get(rec.summary, "vat_20_amount", 0) + Get(rec.summary, "vat_0_amount", 0)

invoice_row(id, rec, prov) ==
  [id |-> id,
   invoice_number |-> rec.metadata["invoice_number"],
   provider |-> prov,
   invoice_date |-> rec.metadata["invoice_date"],
   total_before_vat |-> Get(rec.summary, "total_before_vat", 0),
   total_vat |-> Get(rec.summary, "vat_20_amount", 0) + Get(rec.summary, "vat_0_amount", 0),
   total_amount |-> import_total_amount(rec)]

mobile_line_rows(id, rec) ==
  { [invoice_id |-> id, line |-> k,
     mobile_number |-> rec.mobiles[k].mobile_number,
     cost_centre |-> rec.mobiles[k].cost_centre,
     total_charge |-> rec.mobiles[k].total_charge] : k \in 1..Len(rec.mobiles) }

cost_centre_rows(id, rec) ==
  { [invoice_id |-> id, cost_centre |-> c,
     mobile_count |-> Len(rec.cost_centres[c].mobiles),
     total_amount |-> rec.cost_centres[c].total_amount] : c \in DOMAIN rec.cost_centres }

\* the INSERTs; AUTOINCREMENT never gives an id a second time
insert_invoice(d, rec, prov) ==
  [d EXCEPT !.seq = @ + 1,
            !.invoices = @ \cup { invoice_row(d.seq + 1, rec, prov) },
            !.mobile_lines = @ \cup mobile_line_rows(d.seq + 1, rec),
            !.cost_centres = @ \cup cost_centre_rows(d.seq + 1, rec)]

\* import_invoice_to_db(data, provider, overwrite) on database d; fails says
\* that an execute raised sqlite3.Error, so that the commit is never reached.
\* The result: how the call ended, the committed database, the id returned,
\* the row the SELECT found.
import_invoice_to_db(d, rec, prov, ow, fails) ==
  LET number == Get(rec.metadata, "invoice_number", "")
      found == select_invoice_id(d, number)
      cleared == IF import_decision(found, ow) = "replace"
                 THEN delete_invoice_rows(d, found) ELSE d
      \* invoice_number TEXT UNIQUE
      unique == \A r \in cleared.invoices : r.invoice_number # number
  IN  IF number = ""
      THEN [status |-> "ValueError", detail |-> "Could not extract invoice number",
            db |-> d, invoice_id |-> 0, existing |-> 0]
      ELSE IF import_decision(found, ow) = "raise"
      THEN [status |-> "ValueError", detail |-> "already exists",
            db |-> d, invoice_id |-> 0, existing |-> found]
      ELSE IF fails \/ ~unique
      THEN [status |-> "Exception", detail |-> "sqlite3.Error",
            db |-> d, invoice_id |-> 0, existing |-> found]
      ELSE [status |-> "ok", detail |-> "",
            db |-> insert_invoice(cleared, rec, prov),
            invoice_id |-> cleared.seq + 1, existing |-> found]

----------------------------------------------------------------------------
(* A parse run, recognizer by recognizer *)

NoOutcome == [status |-> "none", data |-> <<>>, day |-> 0]

FreshData(p) == IF p = "Vodafone" THEN Vodafone_init ELSE Three_init
FirstStep(p) == IF p = "Vodafone" THEN "metadata" ELSE "header"

\* no second extractor object
NoInstance == [parser |-> "", full_text |-> <<>>, invoice_data |-> <<>>,
               pc |-> "off", sec |-> 1]

\* _parse_date not called
NoCall == [parser |-> "", date_str |-> <<>>, returned |-> <<>>]

\* no import under way
NoImports == <<>>

NoResponse == [status |-> 0, detail |-> "", invoice_id |-> 0]
NoData == <<>>

\* no request is being served
UploadIdle ==
  /\ upc = "idle"
  /\ filename = <<>>
  /\ overwrite = FALSE
  /\ tmp_files = {}
  /\ tmp_path = 0
  /\ first_page = NoPage
  /\ provider = ""
  /\ data = NoData
  /\ db = EmptyDb
  /\ existing = 0
  /\ invoice_id = 0
  /\ resp = NoResponse

InitParse ==
  /\ UploadIdle
  /\ parser \in {"Vodafone", "Three"}
  /\ full_text \in (IF parser = "Vodafone" THEN VodafoneDocs ELSE ThreeDocs)
  /\ invoice_data = FreshData(parser)
  /\ pc = FirstStep(parser)
  /\ sec = 1
  /\ row = 1
  /\ today = 1
  /\ run = 1
  /\ first = NoOutcome
  /\ other = NoInstance
  /\ date_call = NoCall
  /\ imp = NoImports

V_parse_metadata ==
  /\ parser = "Vodafone" /\ pc = "metadata"
  /\ invoice_data' = Vodafone_parse_metadata(invoice_data, full_text)
  /\ pc' = "quick_breakdown"
  /\ UNCHANGED <<parser, full_text, sec, row, today, run, first>>
  /\ UNCHANGED <<other, date_call, imp, uploadVars>>

V_parse_quick_breakdown ==
  /\ parser = "Vodafone" /\ pc = "quick_breakdown"
  /\ invoice_data' = Vodafone_parse_quick_breakdown(invoice_data, full_text)
  /\ pc' = IF Len(full_text.sections) = 0 THEN "vat_summary" ELSE "section"
  /\ sec' = 1
  /\ UNCHANGED <<parser, full_text, row, today, run, first>>
  /\ UNCHANGED <<other, date_call, imp, uploadVars>>

\* the head of the loop over sections[1:]: the identifier, the aggregate entry
V_section ==
  /\ parser = "Vodafone" /\ pc = "section"
  /\ LET s == full_text.sections[sec]
     IN  IF cost_centre_match(s)
         THEN /\ invoice_data' = Vodafone_init_cost_centre(invoice_data, s.id)
              /\ pc' = IF Len(s.rows) = 0 THEN "total" ELSE "rows"
              /\ sec' = sec
         ELSE /\ invoice_data' = invoice_data
              /\ pc' = IF sec = Len(full_text.sections) THEN "vat_summary" ELSE "section"
              /\ sec' = sec + 1
  /\ row' = 1
  /\ UNCHANGED <<parser, full_text, today, run, first>>
  /\ UNCHANGED <<other, date_call, imp, uploadVars>>

\* one match of the mobile pattern
V_mobile ==
  /\ parser = "Vodafone" /\ pc = "rows"
  /\ LET s == full_text.sections[sec]
     IN  /\ invoice_data' =
               Vodafone_add_mobile(invoice_data, s.id,
                                   Vodafone_mobile_entry(s.rows[row], s.id))
         /\ pc' = IF row = Len(s.rows) THEN "total" ELSE "rows"
  /\ row' = row + 1
  /\ UNCHANGED <<parser, full_text, sec, today, run, first>>
  /\ UNCHANGED <<other, date_call, imp, uploadVars>>

\* the section's total line
V_section_total ==
  /\ parser = "Vodafone" /\ pc = "total"
  /\ LET s == full_text.sections[sec]
     IN  invoice_data' = IF s.total # None
                         THEN Vodafone_verified_totals(invoice_data, s.id, s.total[1])
                         ELSE invoice_data
  /\ pc' = IF sec = Len(full_text.sections) THEN "vat_summary" ELSE "section"
  /\ sec' = sec + 1
  /\ UNCHANGED <<parser, full_text, row, today, run, first>>
  /\ UNCHANGED <<other, date_call, imp, uploadVars>>

V_parse_vat_summary ==
  /\ parser = "Vodafone" /\ pc = "vat_summary"
  /\ invoice_data' = Vodafone_parse_vat_summary(invoice_data, full_text)
  /\ pc' = "done"
  /\ UNCHANGED <<parser, full_text, sec, row, today, run, first>>
  /\ UNCHANGED <<other, date_call, imp, uploadVars>>

T_parse_header ==
  /\ parser = "Three" /\ pc = "header"
  /\ invoice_data' = Three_parse_header(invoice_data, full_text, today)
  /\ pc' = "summary"
  /\ UNCHANGED <<parser, full_text, sec, row, today, run, first>>
  /\ UNCHANGED <<other, date_call, imp, uploadVars>>

T_parse_summary ==
  /\ parser = "Three" /\ pc = "summary"
  /\ invoice_data' = Three_parse_summary(invoice_data, full_text)
  /\ pc' = "vat"
  /\ UNCHANGED <<parser, full_text, sec, row, today, run, first>>
  /\ UNCHANGED <<other, date_call, imp, uploadVars>>

T_parse_vat ==
  /\ parser = "Three" /\ pc = "vat"
  /\ invoice_data' = Three_parse_vat(invoice_data, full_text)
  /\ pc' = "verify"
  /\ UNCHANGED <<parser, full_text, sec, row, today, run, first>>
  /\ UNCHANGED <<other, date_call, imp, uploadVars>>

\* the end of ThreePDFParser.parse: raise ValueError, or return the record
T_return ==
  /\ parser = "Three" /\ pc = "verify"
  /\ pc' = IF Three_required_present(invoice_data) THEN "done" ELSE "raised"
  /\ UNCHANGED <<parser, full_text, invoice_data, sec, row, today, run, first>>
  /\ UNCHANGED <<other, date_call, imp, uploadVars>>

\* midnight passes. Only _parse_header reads the clock, and it is the first
\* step of its run, so the day is let change only before a run's first step.
Tick ==
  /\ pc = FirstStep(parser) /\ today < MaxDay
  /\ today' = today + 1
  /\ UNCHANGED <<parser, full_text, invoice_data, pc, sec, row, run, first>>
  /\ UNCHANGED <<other, date_call, imp, uploadVars>>

\* the same text is parsed again, by a newly constructed extractor
NewParse ==
  /\ pc \in {"done", "raised"} /\ run = 1
  /\ first' = [status |-> pc, data |-> invoice_data, day |-> today]
  /\ run' = 2
  /\ invoice_data' = FreshData(parser)
  /\ pc' = FirstStep(parser)
  /\ sec' = 1
  /\ row' = 1
  /\ UNCHANGED <<parser, full_text, today>>
  /\ UNCHANGED <<other, date_call, imp, uploadVars>>

NextParse ==
  \/ V_parse_metadata
  \/ V_parse_quick_breakdown
  \/ V_section
  \/ V_mobile
  \/ V_section_total
  \/ V_parse_vat_summary
  \/ T_parse_header
  \/ T_parse_summary
  \/ T_parse_vat
  \/ T_return
  \/ Tick
  \/ NewParse

SpecParse == InitParse /\ [][NextParse]_vars

----------------------------------------------------------------------------
(* Properties of the extractors *)

TotalAmount(inv) == inv.metadata["total_amount"]
SummarySum(inv) ==
  Get(inv.summary, "total_before_vat", 0) + Get(inv.summary, "vat_20_amount", 0)
    + Get(inv.summary, "vat_0_amount", 0)
IdentityHolds(inv) ==
  /\ "total_amount" \in DOMAIN inv.metadata
  /\ Abs(TotalAmount(inv) - SummarySum(inv)) <= Tolerance

\* C1: the record VodafoneInvoiceParser.parse returns has total_amount equal
\* to total_before_vat + vat_20_amount + vat_0_amount (absent = 0) within
\* 0.01, whatever tax fences the text holds and in both branches of
\* _parse_vat_summary.
C1_VodafoneTotalIdentity ==
  (parser = "Vodafone" /\ pc = "done") => IdentityHolds(invoice_data)

\* C1 witness: the recovery branch ran on a figure 1.2 does not divide, and
\* replaced the total the metadata recognizer had read.
C1_Witness ==
  /\ parser = "Vodafone" /\ pc = "done"
  /\ full_text.before_vat = Some(P(10001))
  /\ full_text.vat_20 = None /\ full_text.vat_0 = None
  /\ full_text.total = Some(P(15000))
  /\ invoice_data.summary["total_before_vat"] = DivideBy1_2(P(10001))
  /\ TotalAmount(invoice_data) = P(10001)

\* C2: every record ThreePDFParser.parse returns has total_amount equal to
\* total_before_vat + vat_0_amount + vat_20_amount (absent = 0) within 0.01,
\* whichever source supplied the total.
C2_ThreeTotalIdentity ==
  (parser = "Three" /\ pc = "done") => IdentityHolds(invoice_data)

\* C3: ThreePDFParser.parse raises, or returns a record in which
\* invoice_number, invoice_date and total_amount are all set.
C3_ThreeRequiredFields ==
  (parser = "Three" /\ pc = "done") =>
     /\ "invoice_number" \in DOMAIN invoice_data.metadata
     /\ invoice_data.metadata["invoice_number"] # ""
     /\ "invoice_date" \in DOMAIN invoice_data.metadata
     /\ "total_amount" \in DOMAIN invoice_data.metadata

\* C3 witness: a record is returned whose date is the fallback and whose total
\* was computed, no total fence being in the text.
C3_Witness ==
  /\ parser = "Three" /\ pc = "done"
  /\ full_text.after_vat = None /\ full_text.net = None
  /\ TotalAmount(invoice_data) = P(12000)

\* the sections of the text that carry identifier id and a total line
TotalLines(id) ==
  { k \in 1..Len(full_text.sections) :
      /\ cost_centre_match(full_text.sections[k])
      /\ full_text.sections[k].id = id
      /\ full_text.sections[k].total # None }

\* C4: once _parse_cost_centres has finished, the aggregate of every cost
\* centre for which a total line was matched carries exactly the figures of
\* that line (of the last such line, should there be several), for any number
\* of rows and of sections with that identifier.
C4_StatedTotalsWin ==
  (parser = "Vodafone" /\ pc \in {"vat_summary", "done"}) =>
     \A id \in CostCentreIds :
        TotalLines(id) # {} =>
           LET k == CHOOSE j \in TotalLines(id) : \A i \in TotalLines(id) : i <= j
               t == full_text.sections[k].total[1]
               cc == invoice_data.cost_centres[id]
           IN  /\ cc.total_service = t.service
               /\ cc.total_usage = t.usage
               /\ cc.total_additional = (IF t.add_cr THEN -t.additional ELSE t.additional)
               /\ cc.total_amount = (IF t.tot_cr THEN -t.total ELSE t.total)

\* C5: a row whose additional (total) column carries 'cr' yields a line item
\* with the negated figure, an unmarked column the figure itself, and the
\* summed total_additional / total_amount of the cost centre changes by
\* exactly the line item's value.
C5_CreditRows ==
  [][ pc = "rows" =>
        LET s == full_text.sections[sec]
            m == s.rows[row]
            e == invoice_data'.mobiles[Len(invoice_data'.mobiles)]
            cc == invoice_data.cost_centres[s.id]
            cc2 == invoice_data'.cost_centres[s.id]
        IN  /\ Len(invoice_data'.mobiles) = Len(invoice_data.mobiles) + 1
            /\ e.additional_charge = (IF m.add_cr THEN 0 - m.additional ELSE m.additional)
            /\ e.total_charge = (IF m.tot_cr THEN 0 - m.total ELSE m.total)
            /\ cc2.total_additional = cc.total_additional + e.additional_charge
            /\ cc2.total_amount = cc.total_amount + e.total_charge
            /\ (m.add_cr => cc2.total_additional = cc.total_additional - m.additional)
            /\ (m.tot_cr => cc2.total_amount = cc.total_amount - m.total)
    ]_vars

\* C5 witness: a credit-marked row has been taken after an unmarked one, and
\* the cost centre's summed total is the first row's total less the credit.
C5_Witness ==
  /\ parser = "Vodafone" /\ pc = "total"
  /\ Len(invoice_data.mobiles) = 2
  /\ invoice_data.mobiles[1].cost_centre = invoice_data.mobiles[2].cost_centre
  /\ invoice_data.mobiles[1].total_charge = P(660)
  /\ invoice_data.mobiles[2].additional_charge = 0 - P(800)
  /\ invoice_data.mobiles[2].total_charge = 0 - P(200)
  /\ invoice_data.cost_centres[full_text.sections[sec].id].total_amount = P(460)
  /\ invoice_data.cost_centres[full_text.sections[sec].id].total_additional = 0 - P(800)

\* the second run has ended as the first did, with the same record
SameOutcome == first.status = pc /\ first.data = invoice_data

\* the bill date of a Three text is matched and one of the seven layouts
\* parses it
ThreeDateRead ==
  /\ full_text.date # None
  /\ \E i \in 1..Len(Three_formats) : Three_try_format(full_text.date[1], i) # None

----------------------------------------------------------------------------
(* upload_invoice and delete_invoice, one request after the other *)

MaxInvoiceId == 3
MaxTmpFiles == 2

Filenames == { <<"bill", "pdf">>, <<"bill", "PDF">>, <<"bill", "txt">>, <<"pdf">> }

\* the documents uploaded: one without an invoice number, one invoice in two
\* issues, for Vodafone; one bill and one without its number, for Three
UploadDocs(p) ==
  IF p = "Vodafone"
  THEN { VodafoneDoc([PlainHeader EXCEPT !.kind = "none"], None, None, None, None,
                     None, <<>>, None, None, None),
         VodafoneDoc(PlainHeader, None, None, None, None, None,
                     << [id |-> "A",
                         rows |-> << CHOOSE m \in MobileRows : ~m.add_cr >>,
                         total |-> None] >>,
                     Some(P(10000)), Some([base |-> P(10000), amount |-> P(2000)]), None),
         VodafoneDoc(PlainHeader, None, None, None, None, None,
                     << [id |-> "B",
                         rows |-> << CHOOSE m \in MobileRows : m.add_cr >>,
                         total |-> None] >>,
                     Some(P(12000)), None, None) }
  ELSE { ThreeDoc(None, Some("B1"), None, Some(Tok(25, "Jan", 25, 2, " ")), None, None,
                  Some(P(10000)), None, None, Some(P(12000)), None),
         ThreeDoc(None, None, None, None, None, None,
                  Some(P(10000)), None, None, Some(P(12000)), None) }

\* parser.parse() of upload_invoice
ParseOutcome(p, text, now) ==
  IF p = "Vodafone"
  THEN [status |-> "done", data |-> Vodafone_parse(Vodafone_init, text)]
  ELSE Three_parse(Three_init, text, now)

InitUpload ==
  /\ UploadIdle
  /\ parser = ""
  /\ full_text = <<>>
  /\ invoice_data = <<>>
  /\ pc = "off"
  /\ sec = 1
  /\ row = 1
  /\ today = 1
  /\ run = 1
  /\ first = NoOutcome
  /\ other = NoInstance
  /\ date_call = NoCall
  /\ imp = NoImports

parseVars == <<full_text, invoice_data, pc, sec, row, today, run, first, other,
              date_call, imp>>

\* http_status with the except ValueError clause missing
http_status_no_client_errors(exc) == 500

\* the status of the HTTPException the except clauses raise
http_status(exc) == IF exc = "ValueError" THEN 400 ELSE 500

\* NamedTemporaryFile picks a name no file has
FreshName == CHOOSE n \in 1..(MaxTmpFiles + 1) : n \notin tmp_files

\* the request is received: the extension check
U_request ==
  /\ upc = "idle"
  /\ \E name \in Filenames, ow \in BOOLEAN :
       /\ filename' = name
       /\ overwrite' = ow
       /\ IF file_extension(name) # "pdf"
          THEN /\ upc' = "idle"
               /\ resp' = [status |-> 400, detail |-> "Only PDF files are accepted",
                           invoice_id |-> 0]
          ELSE /\ upc' = "save"
               /\ resp' = NoResponse
  /\ first_page' = NoPage
  /\ UNCHANGED <<parser, tmp_files, tmp_path, provider, data, db, existing, invoice_id>>
  /\ UNCHANGED parseVars

\* the temporary file is created and the upload copied into it; when the read
\* or the write raises, the outer handler answers 500
U_save_temp ==
  /\ upc = "save"
  /\ Cardinality(tmp_files) < MaxTmpFiles
  /\ tmp_files' = tmp_files \cup {FreshName}
  /\ \E copied \in BOOLEAN :
       IF copied
       THEN /\ tmp_path' = FreshName
            /\ upc' = "detect"
            /\ resp' = resp
       ELSE /\ tmp_path' = 0
            /\ upc' = "idle"
            /\ resp' = [status |-> http_status("Exception"),
                        detail |-> "Error processing file", invoice_id |-> 0]
  /\ filename' = <<>>
  /\ UNCHANGED <<parser, overwrite, first_page, provider, data, db,
                 existing, invoice_id>>
  /\ UNCHANGED parseVars

\* the finally clause, and the response of the except clauses
Leave(status, detail) ==
  /\ tmp_files' = tmp_files \ {tmp_path}
  /\ tmp_path' = 0
  /\ upc' = "idle"
  /\ resp' = [status |-> status, detail |-> detail, invoice_id |-> 0]

\* the first page is read and the provider detected; NoPage stands for a
\* file PdfReader cannot read
U_detect ==
  /\ upc = "detect"
  /\ \E page \in (SUBSET PageWords) \cup {NoPage} :
       /\ first_page' = page
       /\ IF page = NoPage
          THEN /\ Leave(http_status("Exception"), "Error processing file")
               /\ UNCHANGED <<parser, provider>>
          ELSE IF detect_provider(page) = ""
          THEN /\ Leave(http_status("ValueError"), "Could not detect provider")
               /\ UNCHANGED <<parser, provider>>
          ELSE /\ provider' = detect_provider(page)
               /\ parser' = detect_provider(page)
               /\ upc' = "parse"
               /\ UNCHANGED <<tmp_files, tmp_path, resp>>
  /\ UNCHANGED <<filename, overwrite, data, db, existing, invoice_id>>
  /\ UNCHANGED parseVars

\* data = parser.parse()
U_parse ==
  /\ upc = "parse"
  /\ \E text \in UploadDocs(provider), readable \in BOOLEAN :
       LET out == ParseOutcome(parser, text, today)
       IN  IF ~readable
           THEN /\ Leave(http_status("Exception"), "Error processing file")
                /\ data' = NoData
                /\ provider' = ""
                /\ parser' = ""
           ELSE IF out.status = "raised"
           THEN /\ Leave(http_status("ValueError"), "Could not extract required field")
                /\ data' = NoData
                /\ provider' = ""
                /\ parser' = ""
           ELSE /\ data' = out.data
                /\ upc' = "import"
                /\ UNCHANGED <<parser, provider, tmp_files, tmp_path, resp>>
  /\ first_page' = NoPage
  /\ UNCHANGED <<filename, overwrite, db, existing, invoice_id>>
  /\ UNCHANGED parseVars

\* invoice_id = import_invoice_to_db(data, provider, overwrite)
U_import ==
  /\ upc = "import"
  /\ db.seq < MaxInvoiceId
  /\ \E fails \in BOOLEAN :
       LET r == import_invoice_to_db(db, data, provider, overwrite, fails)
       IN  /\ db' = r.db
           /\ existing' = r.existing
           /\ invoice_id' = r.invoice_id
           /\ IF r.status = "ok"
              THEN /\ upc' = "fetch"
                   /\ UNCHANGED <<parser, provider, data, tmp_files, tmp_path, resp>>
              ELSE /\ Leave(http_status(r.status), r.detail)
                   /\ data' = NoData
                   /\ provider' = ""
                   /\ parser' = ""
  /\ UNCHANGED <<filename, overwrite, first_page>>
  /\ UNCHANGED parseVars

\* the stored row is read back and returned
U_return ==
  /\ upc = "fetch"
  /\ tmp_files' = tmp_files \ {tmp_path}
  /\ tmp_path' = 0
  /\ upc' = "idle"
  /\ resp' = [status |-> 200, detail |-> "Successfully imported", invoice_id |-> invoice_id]
  /\ data' = NoData
  /\ provider' = ""
  /\ parser' = ""
  /\ existing' = 0
  /\ invoice_id' = 0
  /\ UNCHANGED <<filename, overwrite, first_page, db>>
  /\ UNCHANGED parseVars

\* delete_invoice(id)
D_delete_invoice ==
  /\ upc = "idle"
  /\ \E id \in 1..MaxInvoiceId :
       IF \E r \in db.invoices : r.id = id
       THEN /\ db' = delete_invoice_rows(db, id)
            /\ resp' = [status |-> 200, detail |-> "Successfully deleted", invoice_id |-> id]
       ELSE /\ db' = db
            /\ resp' = [status |-> 404, detail |-> "Invoice not found", invoice_id |-> id]
  /\ first_page' = NoPage
  /\ filename' = <<>>
  /\ UNCHANGED <<parser, upc, overwrite, tmp_files, tmp_path, provider, data,
                 existing, invoice_id>>
  /\ UNCHANGED parseVars

NextUpload ==
  \/ U_request
  \/ U_save_temp
  \/ U_detect
  \/ U_parse
  \/ U_import
  \/ U_return
  \/ D_delete_invoice

SpecUpload == InitUpload /\ [][NextUpload]_vars

----------------------------------------------------------------------------
(* Properties of the upload handler and the storage *)

DetectionFailed ==
  /\ upc = "idle"
  /\ resp.status = 400
  /\ resp.detail = "Could not detect provider"

ThreeSelected == upc = "parse" /\ parser = "Three" /\ provider = "Three"

\* C7, as claimed: the Three extractor is selected for every first page that
\* holds "Hutchison 3G", and the detection error is raised for every first
\* page that holds neither carrier's marker.
C7_HutchisonSelectsThree ==
  first_page # NoPage =>
     /\ "Hutchison 3G" \in first_page => ThreeSelected
     /\ (~HasVodafone(first_page) /\ ~HasThree(first_page)) => DetectionFailed

\* C7, amended: the Three extractor is selected for every first page that
\* holds "Hutchison 3G" and does not hold "vodafone" in any letter case, and
\* the detection error is raised for every first page that holds neither
\* carrier's marker.
C7_HutchisonWithoutVodafoneSelectsThree ==
  first_page # NoPage =>
     /\ ("Hutchison 3G" \in first_page /\ "vodafone" \notin PageLower(first_page))
           => ThreeSelected
     /\ (~HasVodafone(first_page) /\ ~HasThree(first_page)) => DetectionFailed

\* C7 witness: a page whose only marker is "Hutchison 3G" has selected the
\* Three extractor.
C7_Witness ==
  /\ first_page = {"Hutchison 3G", "THREE"}
  /\ ThreeSelected

\* C8: whenever upload_invoice has returned, no temporary file it created is
\* left on disk, whichever way it ended.
C8_TempFileDeleted == upc = "idle" => tmp_files = {}

UniqueInvoiceNumbers ==
  \A r1, r2 \in db.invoices : r1.invoice_number = r2.invoice_number => r1 = r2

\* C9: no two rows of invoices ever share an invoice_number, and an import of
\* a stored invoice number with overwrite = False ends in an error and leaves
\* the three tables as they were.
C9_UniqueAndDuplicateRejected ==
  /\ [] UniqueInvoiceNumbers
  /\ [][ ( /\ upc = "import"
           /\ ~overwrite
           /\ select_invoice_id(db, Get(data.metadata, "invoice_number", "")) # 0 )
         => ( /\ db' = db
              /\ upc' = "idle"
              /\ resp'.status \in {400, 500} ) ]_vars

\* C9 witness: a second upload of a stored invoice number, without the flag,
\* has been answered with the duplicate error.
C9_Witness ==
  /\ upc = "idle"
  /\ resp.status = 400 /\ resp.detail = "already exists"
  /\ Cardinality(db.invoices) = 2

\* C10: after an import with overwrite = True of a stored invoice number, no
\* row of the replaced invoice remains, and the rows attached to the invoice
\* number are exactly those of the new record.
C10_OverwriteReplacesRows ==
  (upc = "fetch" /\ overwrite /\ existing # 0) =>
     /\ existing # invoice_id
     /\ \A r \in db.invoices : r.id # existing
     /\ \A r \in db.mobile_lines : r.invoice_id # existing
     /\ \A r \in db.cost_centres : r.invoice_id # existing
     /\ { r \in db.invoices : r.invoice_number = data.metadata["invoice_number"] }
          = { invoice_row(invoice_id, data, provider) }
     /\ { r \in db.mobile_lines : r.invoice_id = invoice_id }
          = mobile_line_rows(invoice_id, data)
     /\ { r \in db.cost_centres : r.invoice_id = invoice_id }
          = cost_centre_rows(invoice_id, data)

\* C10 witness: the second issue of an invoice has replaced the first, whose
\* line was billed to another cost centre.
C10_Witness ==
  /\ upc = "fetch" /\ overwrite /\ existing = 1 /\ invoice_id = 2
  /\ \E r \in db.cost_centres : r.invoice_id = 2 /\ r.cost_centre = "B"
  /\ \A r \in db.cost_centres : r.cost_centre # "A"
  /\ Cardinality(db.mobile_lines) = 1

----------------------------------------------------------------------------
(* Further properties of the extractors *)

\* the tax amount a tax fence of the text carries, 0 when it is absent
TextAmount(fence) == IF fence = None THEN 0 ELSE fence[1].amount

\* C11: when the text carries no tax amount (both absent or zero) and a
\* before-VAT figure B > 0, the record has total_before_vat = B / 1.2 (to the
\* resolution of the amounts), vat_20_amount = B less that, and total_amount
\* = B; B = 120.00 gives 100.00, 20.00 and 120.00. When a tax amount is not
\* zero, total_before_vat is B as read.
C11_RecoveryFromGross ==
  (parser = "Vodafone" /\ pc = "done" /\ full_text.before_vat # None) =>
     LET B == full_text.before_vat[1]
         vat == TextAmount(full_text.vat_20) + TextAmount(full_text.vat_0)
         net == invoice_data.summary["total_before_vat"]
     IN  IF vat = 0 /\ B > 0
         THEN /\ net * 12 <= B * 10
              /\ B * 10 < (net + 1) * 12
              /\ invoice_data.summary["vat_20_amount"] = B - net
              /\ TotalAmount(invoice_data) = B
              /\ B = P(12000) =>
                    /\ net = P(10000)
                    /\ invoice_data.summary["vat_20_amount"] = P(2000)
         ELSE net = B

\* C11 witness: the 20% fence is in the text with amount 0, the before-VAT
\* figure is 120.00, and the record holds net 100.00 and tax 20.00.
C11_Witness ==
  /\ parser = "Vodafone" /\ pc = "done"
  /\ full_text.before_vat = Some(P(12000))
  /\ full_text.vat_20 # None /\ TextAmount(full_text.vat_20) = 0
  /\ invoice_data.summary["total_before_vat"] = P(10000)
  /\ invoice_data.summary["vat_20_amount"] = P(2000)
  /\ TotalAmount(invoice_data) = P(12000)

\* C12: when the text carries the stated 'Total' figure X, the record parse
\* returns has total_amount = X, whatever the tax recognizer computes.
C12_StatedTotalWins ==
  (parser = "Vodafone" /\ pc = "done" /\ full_text.total # None) =>
     TotalAmount(invoice_data) = full_text.total[1]

\* C13: at every point of a parse, every entry of the mobiles list has a
\* cost_centre that is a key of cost_centres.
C13_MobilesHaveCostCentre ==
  parser = "Vodafone" =>
     \A k \in 1..Len(invoice_data.mobiles) :
        invoice_data.mobiles[k].cost_centre \in DOMAIN invoice_data.cost_centres

\* C13 witness: in the second section, before its total line is looked for,
\* the list holds a row of each of two cost centres.
C13_Witness ==
  /\ parser = "Vodafone" /\ pc = "total" /\ sec = 2
  /\ Len(invoice_data.mobiles) = 2
  /\ invoice_data.mobiles[1].cost_centre # invoice_data.mobiles[2].cost_centre

\* the rows of the text the mobile pattern matches under a matched
\* identifier, in the order of the text, from section k on
RECURSIVE DocumentRows(_)
DocumentRows(k) ==
  IF k > Len(full_text.sections) THEN <<>>
  ELSE LET sct == full_text.sections[k]
       IN  (IF cost_centre_match(sct)
            THEN [i \in 1..Len(sct.rows) |-> [id |-> sct.id, row |-> sct.rows[i]]]
            ELSE <<>>)
           \o DocumentRows(k + 1)

RECURSIVE SumOfCounts(_, _)
SumOfCounts(counts, ids) ==
  IF ids = {} THEN 0
  ELSE LET c == CHOOSE x \in ids : TRUE
       IN  counts[c].mobile_count + SumOfCounts(counts, ids \ {c})

\* C19: once the cost centres of a document are parsed, the mobile_count of
\* each cost centre is the number of rows matched under its identifier, the
\* counts add up to the length of the mobiles list, and the list holds the
\* rows in the order of the text; the example block yields mobile_count 1,
\* total_service 6.60, total_usage 0, total_additional 0, total_amount 6.60.
C19_MobileCounts ==
  (parser = "Vodafone" /\ pc \in {"vat_summary", "done"}) =>
     LET rows == DocumentRows(1)
         counts == get_cost_centres_dataframe_dict(invoice_data)
     IN  /\ \A c \in DOMAIN counts :
              counts[c].mobile_count = Cardinality({k \in 1..Len(rows) : rows[k].id = c})
         /\ SumOfCounts(counts, DOMAIN counts) = Len(invoice_data.mobiles)
         /\ Len(invoice_data.mobiles) = Len(rows)
         /\ \A k \in 1..Len(rows) :
              /\ invoice_data.mobiles[k].mobile_number = RemoveSpaces(rows[k].row.mobile_number)
              /\ invoice_data.mobiles[k].cost_centre = rows[k].id
              /\ invoice_data.mobiles[k].service_charge = rows[k].row.service
         /\ full_text = CostCentreExampleDoc =>
              counts["A"] = [cost_centre |-> "A", mobile_count |-> 1,
                             total_service |-> P(660), total_usage |-> 0,
                             total_additional |-> 0, total_amount |-> P(660)]

\* C19 witness: two sections with the same identifier and a row each, the
\* credit-marked row first, give one cost centre of two rows, in that order.
C19_Witness ==
  /\ parser = "Vodafone" /\ pc = "done"
  /\ Len(full_text.sections) = 2
  /\ DOMAIN invoice_data.cost_centres = {"B"}
  /\ get_cost_centres_dataframe_dict(invoice_data)["B"].mobile_count = 2
  /\ invoice_data.mobiles[1].total_charge = 0 - P(200)
  /\ invoice_data.mobiles[2].total_charge = P(660)

\* the Three sum from the fences of the text
ThreeTextSum ==
  (IF full_text.before_vat = None THEN 0 ELSE full_text.before_vat[1])
  + TextAmount(full_text.vat_0) + TextAmount(full_text.vat_20)

ThreeVatParsed == parser = "Three" /\ pc \in {"verify", "done", "raised"}

\* C20, as claimed: the total is the 'Total charges after VAT' figure when
\* that fence is present, else the 'Net Charges for this month' figure when
\* that one is, else the computed sum; a present source is never replaced by
\* a later one.
C20_StrictPrecedence ==
  ThreeVatParsed =>
     TotalAmount(invoice_data) =
        (IF full_text.after_vat # None THEN full_text.after_vat[1]
         ELSE IF full_text.net # None THEN full_text.net[1]
         ELSE ThreeTextSum)

\* C20, amended: the same precedence, except that a figure of 0 read from
\* the source that precedence selects is replaced by the computed sum.
C20_PrecedenceUnlessZero ==
  ThreeVatParsed =>
     LET chosen == IF full_text.after_vat # None THEN full_text.after_vat[1]
                   ELSE IF full_text.net # None THEN full_text.net[1]
                   ELSE 0
     IN  TotalAmount(invoice_data) = (IF chosen = 0 THEN ThreeTextSum ELSE chosen)

\* C20 witness: the text has both total fences with different figures, and
\* the record's total is the 'Total charges after VAT' figure.
C20_Witness ==
  /\ parser = "Three" /\ pc = "done"
  /\ full_text.after_vat = Some(P(15000))
  /\ full_text.net = Some(P(12000))
  /\ TotalAmount(invoice_data) = P(15000)

----------------------------------------------------------------------------
(* parse() called a second time on the same extractor object *)

\* parse() is called again on the object whose parse() has ended:
\* self.invoice_data is the record __init__ made, as the first call left it
ParseAgain ==
  /\ pc \in {"done", "raised"} /\ run = 1
  /\ first' = [status |-> pc, data |-> invoice_data, day |-> today]
  /\ run' = 2
  /\ pc' = FirstStep(parser)
  /\ sec' = 1
  /\ row' = 1
  /\ UNCHANGED <<parser, full_text, invoice_data, today>>
  /\ UNCHANGED <<other, date_call, imp, uploadVars>>

NextReparse ==
  \/ V_parse_metadata
  \/ V_parse_quick_breakdown
  \/ V_section
  \/ V_mobile
  \/ V_section_total
  \/ V_parse_vat_summary
  \/ T_parse_header
  \/ T_parse_summary
  \/ T_parse_vat
  \/ T_return
  \/ Tick
  \/ ParseAgain

SpecReparse == InitParse /\ [][NextReparse]_vars

\* C14: a second call of parse() on the same extractor object, over the same
\* document and on the same day, ends as the first did and returns a record
\* equal to the one the first call returned: nothing is carried over.
C14_SecondCallEqualsFirst ==
  (run = 2 /\ pc \in {"done", "raised"} /\ first.day = today) =>
     /\ first.status = pc
     /\ invoice_data.metadata = first.data.metadata
     /\ invoice_data.summary = first.data.summary
     /\ invoice_data.mobiles = first.data.mobiles
     /\ invoice_data.cost_centres = first.data.cost_centres

----------------------------------------------------------------------------
(* Further properties of the upload handler *)

\* the name ends with a dot and 'pdf', in any letter case
HasPdfExtension(name) ==
  Len(name) >= 2 /\ name[Len(name)] \in {"pdf", "PDF", "Pdf"}

\* C15: the stages run in the order extension check, detection, parse,
\* import. A name without a pdf extension is answered 400 with no temporary
\* file written, no detection run and no parser made; the handler goes on
\* to the temporary file only for a name with a pdf extension; a parser
\* runs only after a provider was detected, and a detection failure leaves
\* no record parsed.
C15_StagesInOrder ==
  /\ upc = "save" => HasPdfExtension(filename)
  /\ (upc = "idle" /\ filename # <<>> /\ ~HasPdfExtension(filename)) =>
        /\ resp.status = 400
        /\ tmp_path = 0 /\ first_page = NoPage /\ parser = "" /\ data = NoData
  /\ upc \in {"parse", "import", "fetch"} => provider \in {"Vodafone", "Three"}
  /\ data # NoData => upc \in {"import", "fetch"}
  /\ DetectionFailed => (parser = "" /\ data = NoData)

\* the descriptions of the extraction errors
ExtractionErrors ==
  {"Could not detect provider", "Could not extract required field",
   "Could not extract invoice number"}

\* C16: an upload that ends because no provider was detected, a required
\* field of a Three document was missing or no invoice number was read is
\* answered 400 with that description; a stored invoice number uploaded
\* without the overwrite flag is answered 400 with another description; none
\* of them is answered 500, and none changes a table.
C16_ClientErrors ==
  [][ /\ ( upc = "detect" /\ first_page' # NoPage /\ detect_provider(first_page') = "" )
         => ( /\ upc' = "idle"
              /\ resp'.status = 400
              /\ resp'.detail = "Could not detect provider"
              /\ db' = db )
      /\ ( upc = "parse" /\ upc' = "idle" /\ resp'.detail \in ExtractionErrors )
         => ( /\ resp'.status = 400
              /\ resp'.detail = "Could not extract required field"
              /\ db' = db )
      /\ ( upc = "import" /\ NoInvoiceNumber(data.metadata) )
         => ( /\ upc' = "idle"
              /\ resp'.status = 400
              /\ resp'.detail = "Could not extract invoice number"
              /\ db' = db )
      /\ ( /\ upc = "import" /\ ~overwrite
           /\ select_invoice_id(db, Get(data.metadata, "invoice_number", "")) # 0 )
         => ( /\ upc' = "idle"
              /\ resp'.status = 400
              /\ resp'.detail \notin ExtractionErrors
              /\ db' = db )
    ]_vars

\* C16 witness: an upload whose document carries no invoice number has been
\* answered 400, after one that was stored.
C16_Witness ==
  /\ upc = "idle"
  /\ resp.status = 400 /\ resp.detail = "Could not extract invoice number"
  /\ Cardinality(db.invoices) = 1

\* C17: the carrier is detected from the first page without regard to letter
\* case: a page holding Vodafone's marker in any case selects Vodafone, also
\* when it holds a marker of Three; a page holding a marker of Three in any
\* case and not Vodafone's selects Three; any other page is a detection
\* failure.
C17_CaseInsensitiveDetection ==
  first_page # NoPage =>
     LET lp == PageLower(first_page)
     IN  /\ "vodafone" \in lp => provider = "Vodafone"
         /\ ("vodafone" \notin lp /\ (lp \cap {"three", "hutchison 3g"}) # {})
               => provider = "Three"
         /\ (lp \cap {"vodafone", "three", "hutchison 3g"}) = {} => DetectionFailed

----------------------------------------------------------------------------
(* Two extractor objects parsing at the same time, each its own document.  *)
(* The first is the object of the parse steps above; the second is `other`, *)
(* which takes one recognizer, or one section of the cost-centre walk, at   *)
(* a step.                                                                  *)

\* the record of an object of class p, were invoice_data an attribute of the
\* class: the one the other object of the class has written
Instance_data_of_the_class(o, p, inv) == IF o.parser = p THEN inv ELSE o.invoice_data

\* self.invoice_data, set by __init__ on the object itself
Instance_data(o, p, inv) == o.invoice_data

\* one step of parse() on the extractor object o
ParseStep(o, now) ==
  LET text == o.full_text
      inv == o.invoice_data
  IN  CASE o.pc = "metadata" ->
             [o EXCEPT !.invoice_data = Vodafone_parse_metadata(inv, text),
                       !.pc = "quick_breakdown"]
        [] o.pc = "quick_breakdown" ->
             [o EXCEPT !.invoice_data = Vodafone_parse_quick_breakdown(inv, text),
                       !.pc = IF Len(text.sections) = 0 THEN "vat_summary" ELSE "section",
                       !.sec = 1]
        [] o.pc = "section" ->
             [o EXCEPT !.invoice_data = Vodafone_parse_section(inv, text.sections[o.sec]),
                       !.pc = IF o.sec = Len(text.sections) THEN "vat_summary" ELSE "section",
                       !.sec = o.sec + 1]
        [] o.pc = "vat_summary" ->
             [o EXCEPT !.invoice_data = Vodafone_parse_vat_summary(inv, text),
                       !.pc = "done"]
        [] o.pc = "header" ->
             [o EXCEPT !.invoice_data = Three_parse_header(inv, text, now),
                       !.pc = "summary"]
        [] o.pc = "summary" ->
             [o EXCEPT !.invoice_data = Three_parse_summary(inv, text),
                       !.pc = "vat"]
        [] o.pc = "vat" ->
             [o EXCEPT !.invoice_data = Three_parse_vat(inv, text),
                       !.pc = "verify"]
        [] o.pc = "verify" ->
             [o EXCEPT !.pc = IF Three_required_present(inv) THEN "done" ELSE "raised"]

\* the extractor objects constructed over the uploaded documents
Instances ==
  { [parser |-> p, full_text |-> t, invoice_data |-> FreshData(p),
     pc |-> FirstStep(p), sec |-> 1] :
       p \in {"Vodafone", "Three"}, t \in UploadDocs("Vodafone") \cup UploadDocs("Three") }

InitConcurrent ==
  /\ UploadIdle
  /\ parser \in {"Vodafone", "Three"}
  /\ full_text \in UploadDocs(parser)
  /\ invoice_data = FreshData(parser)
  /\ pc = FirstStep(parser)
  /\ sec = 1
  /\ row = 1
  /\ today = 1
  /\ run = 1
  /\ first = NoOutcome
  /\ other \in { o \in Instances : o.full_text \in UploadDocs(o.parser) }
  /\ date_call = NoCall
  /\ imp = NoImports

\* the second object takes a step
O_step ==
  /\ other.pc \notin {"done", "raised", "off"}
  /\ other' = ParseStep([other EXCEPT
                           !.invoice_data = Instance_data(other, parser, invoice_data)],
                        today)
  /\ UNCHANGED <<parser, full_text, invoice_data, pc, sec, row, today, run, first>>
  /\ UNCHANGED <<date_call, imp, uploadVars>>

NextConcurrent ==
  \/ V_parse_metadata
  \/ V_parse_quick_breakdown
  \/ V_section
  \/ V_mobile
  \/ V_section_total
  \/ V_parse_vat_summary
  \/ T_parse_header
  \/ T_parse_summary
  \/ T_parse_vat
  \/ T_return
  \/ Tick
  \/ O_step

SpecConcurrent == InitConcurrent /\ [][NextConcurrent]_vars

\* the outcome is the one parse() gives when the object parses alone
ReturnedAlone(p, text, status, inv) ==
  \E d \in 1..today : ParseOutcome(p, text, d) = [status |-> status, data |-> inv]

\* C18: when two extractor objects parse at the same time, each its own
\* text, then however their steps interleave each returns the record (or
\* raises the error) it would with no other parse running.
C18_ConcurrentParsesIndependent ==
  /\ pc \in {"done", "raised"} => ReturnedAlone(parser, full_text, pc, invoice_data)
  /\ other.pc \in {"done", "raised"} =>
        ReturnedAlone(other.parser, other.full_text, other.pc, other.invoice_data)

\* C18 witness: two Vodafone objects over different documents, the second has
\* returned its line items while the first is between two recognizers.
C18_Witness ==
  /\ parser = "Vodafone" /\ other.parser = "Vodafone"
  /\ other.full_text # full_text
  /\ pc = "vat_summary" /\ invoice_data.mobiles # <<>>
  /\ other.pc = "done" /\ other.invoice_data.mobiles # <<>>

----------------------------------------------------------------------------
(* The date and the total of a Three record *)

ThreeHeaderParsed ==
  parser = "Three" /\ pc \in {"summary", "vat", "verify", "done", "raised"}

\* C23: once the header recognizer of ThreePDFParser has run, invoice_date is
\* set to a date; it is the current date when the text has no bill date or
\* one that no layout parses; and a parse that raises does so for want of an
\* invoice number or of a total, never of the date.
C23_DateDefaultsToToday ==
  ThreeHeaderParsed =>
     /\ "invoice_date" \in DOMAIN invoice_data.metadata
     /\ invoice_data.metadata["invoice_date"].iso
     /\ ~ThreeDateRead => invoice_data.metadata["invoice_date"] = Now(today)
     /\ pc = "raised" =>
           \/ NoInvoiceNumber(invoice_data.metadata)
           \/ Get(invoice_data.metadata, "total_amount", 0) = 0

\* C23 witness: a text whose bill date is the 31st of February has been
\* parsed on the second day, and the record returned carries that day.
C23_Witness ==
  /\ parser = "Three" /\ pc = "done" /\ today = 2
  /\ full_text.date = Some(Tok(31, "Feb", 25, 2, " "))
  /\ invoice_data.metadata["invoice_date"] = Now(2)

\* C29: ThreePDFParser.parse returns no record whose total_amount is 0: a
\* 'Total charges after VAT' of 0 is replaced by the computed sum as a
\* missing one is, and the parse raises when the total is 0 after that.
C29_NoZeroTotalReturned ==
  /\ (parser = "Three" /\ pc = "done") => TotalAmount(invoice_data) # 0
  /\ (ThreeVatParsed /\ full_text.after_vat = Some(0)) =>
        TotalAmount(invoice_data) = ThreeTextSum
  /\ (parser = "Three" /\ pc \in {"done", "raised"} /\ TotalAmount(invoice_data) = 0) =>
        pc = "raised"

\* C29 witness: a text with 'Total charges after VAT £0.00' has given a
\* record whose total is the computed 120.00.
C29_Witness ==
  /\ parser = "Three" /\ pc = "done"
  /\ full_text.after_vat = Some(0)
  /\ TotalAmount(invoice_data) = P(12000)

----------------------------------------------------------------------------
(* _parse_date of the two extractors, called on a date string by itself *)

\* date strings: every two-digit year, four-digit years of both centuries,
\* month names and numbers and a word that is no month, the separators of
\* the layouts and none
DateStrings ==
       { Tok(d, mon, y, 2, sep) :
           d \in {15, 32}, mon \in {"Jan", "January", "01", "Foo"},
           y \in 0..99, sep \in {"", " ", "-", "/"} }
  \cup { Tok(d, mon, y, 4, sep) :
           d \in {15, 32}, mon \in {"Jan", "January", "01", "Foo"},
           y \in {1969, 1999, 2000, 2025}, sep \in {"", " ", "-", "/"} }

InitDates ==
  /\ UploadIdle
  /\ parser = ""
  /\ full_text = <<>>
  /\ invoice_data = <<>>
  /\ pc = "off"
  /\ sec = 1
  /\ row = 1
  /\ today \in 1..MaxDay
  /\ run = 1
  /\ first = NoOutcome
  /\ other = NoInstance
  /\ imp = NoImports
  /\ date_call \in { [parser |-> p, date_str |-> t, returned |-> <<>>] :
                        p \in {"Vodafone", "Three"}, t \in DateStrings }

\* VodafoneInvoiceParser._parse_date(date_str)
V_parse_date ==
  /\ date_call.parser = "Vodafone" /\ date_call.returned = <<>>
  /\ date_call' = [date_call EXCEPT !.returned = <<Vodafone_parse_date(date_call.date_str)>>]
  /\ UNCHANGED <<parser, full_text, invoice_data, pc, sec, row, today, run, first, other, imp>>
  /\ UNCHANGED uploadVars

\* ThreePDFParser._parse_date(date_str)
T_parse_date ==
  /\ date_call.parser = "Three" /\ date_call.returned = <<>>
  /\ date_call' = [date_call EXCEPT
                     !.returned = <<Three_parse_date(date_call.date_str, today)>>]
  /\ UNCHANGED <<parser, full_text, invoice_data, pc, sec, row, today, run, first, other, imp>>
  /\ UNCHANGED uploadVars

NextDates ==
  \/ V_parse_date
  \/ T_parse_date

SpecDates == InitDates /\ [][NextDates]_vars

\* C21: when none of the three attempts of VodafoneInvoiceParser._parse_date
\* parses the string, the call returns the string it was given, unchanged.
C21_FailureReturnsInput ==
  ( /\ date_call.parser = "Vodafone"
    /\ date_call.returned # <<>>
    /\ ~date_call.returned[1].iso )
  => date_call.returned[1].text = Some(date_call.date_str)

\* a layout of ThreePDFParser._parse_date parses the string
ThreeLayoutParses(date_str) ==
  \E i \in 1..Len(Three_formats) : Three_try_format(date_str, i) # None

\* C22: ThreePDFParser._parse_date gives a date written with a two-digit
\* year yy in one of its layouts the year 2000 + yy, and leaves the year of
\* one written with four digits as it is.
C22_TwoDigitYearsIn2000s ==
  ( /\ date_call.parser = "Three"
    /\ date_call.returned # <<>>
    /\ ThreeLayoutParses(date_call.date_str) )
  => date_call.returned[1].y =
        IF date_call.date_str.ydigits = 2
        THEN 2000 + date_call.date_str.year
        ELSE date_call.date_str.year

----------------------------------------------------------------------------
(* The imports statement by statement. Each call works on a database        *)
(* connection: import_invoice_to_db and delete_invoice on one they open,    *)
(* InvoiceImporter.import_pdf on self.conn, which outlives the call. A      *)
(* connection's first INSERT or DELETE opens a transaction, which holds the *)
(* database's write lock until it is committed or rolled back; the          *)
(* statements of a transaction are seen by its connection alone until the   *)
(* commit.                                                                  *)

Connections == {1, 2}

\* a connection with no call under way and no transaction open
IdleConnection ==
  [kind |-> "", rec |-> NoData, prov |-> "", ow |-> FALSE, pc |-> "idle",
   txn |-> <<>>, found |-> 0, invoice_id |-> 0, error |-> ""]

\* the records the calls are given: those parse() returns for the uploaded
\* documents, with the provider detected; of the two issues of the Vodafone
\* invoice the one with a line of cost centre "A"
ImportRecords ==
  UNION { { [rec |-> ParseOutcome(p, t, 1).data, prov |-> p] :
              t \in { u \in UploadDocs(p) :
                        /\ ParseOutcome(p, u, 1).status = "done"
                        /\ "B" \notin DOMAIN ParseOutcome(p, u, 1).data.cost_centres } } :
          p \in {"Vodafone", "Three"} }

\* what the statements of connection c read
View(c) == IF imp[c].txn # <<>> THEN imp[c].txn[1] ELSE db

\* another connection holds the write lock
Locked(c) == \E o \in Connections \ {c} : imp[o].txn # <<>>

\* invoice_number TEXT UNIQUE, with the constraint not declared
unique_invoice_number_not_declared(d, number) == TRUE

\* invoice_number TEXT UNIQUE: the INSERT is accepted
unique_invoice_number(d, number) == \A r \in d.invoices : r.invoice_number # number

\* import_pdf_decision with a stored invoice replaced whatever the flag says
import_pdf_decision_always_replaces(found, ow) ==
  IF found # 0 THEN "replace" ELSE "insert"

\* the two tests of import_pdf on the row its SELECT found
import_pdf_decision(found, ow) ==
  IF found # 0 /\ ~ow THEN "return"
  ELSE IF found # 0 /\ ow THEN "replace"
  ELSE "insert"

\* commits_after_deletes with the commit in import_invoice_to_db as well
commits_after_deletes_in_both(kind) == kind \in {"cli", "api"}

\* the call commits when it has deleted the replaced invoice
commits_after_deletes(kind) == kind = "cli"

\* the row import_pdf inserts: the provider is 'Vodafone', the total the one
\* of the metadata
import_pdf_invoice_row(id, rec) ==
  [invoice_row(id, rec, "Vodafone") EXCEPT
     !.total_amount = Get(rec.metadata, "total_amount", 0)]

\* the database as connection state s sees it after its next statement
Statement(s, d) ==
  CASE s.pc = "del_lines" ->
         [d EXCEPT !.mobile_lines = delete_invoice_rows(d, s.found).mobile_lines]
    [] s.pc = "del_ccs" ->
         [d EXCEPT !.cost_centres = delete_invoice_rows(d, s.found).cost_centres]
    [] s.pc = "del_invoice" ->
         [d EXCEPT !.invoices = delete_invoice_rows(d, s.found).invoices]
    [] s.pc = "insert" ->
         [d EXCEPT !.seq = @ + 1,
                   !.invoices = @ \cup { IF s.kind = "cli"
                                         THEN import_pdf_invoice_row(d.seq + 1, s.rec)
                                         ELSE invoice_row(d.seq + 1, s.rec, s.prov) }]
    [] s.pc = "lines" ->
         [d EXCEPT !.mobile_lines = @ \cup mobile_line_rows(s.invoice_id, s.rec)]
    [] s.pc = "ccs" ->
         [d EXCEPT !.cost_centres = @ \cup cost_centre_rows(s.invoice_id, s.rec)]

\* the place of the call after the statement at s.pc
AfterStatement(s) ==
  CASE s.pc = "del_lines" -> "del_ccs"
    [] s.pc = "del_ccs" -> "del_invoice"
    [] s.pc = "del_invoice" ->
         IF s.kind = "delete" THEN "commit"
         ELSE IF commits_after_deletes(s.kind) THEN "del_commit"
         ELSE "insert"
    [] s.pc = "insert" -> "lines"
    [] s.pc = "lines" -> "ccs"
    [] s.pc = "ccs" -> "commit"

\* the call ends in an exception, its connection as it is
Raised(s, error) ==
  IF s.kind = "delete"
  THEN [IdleConnection EXCEPT !.kind = s.kind, !.pc = "raised", !.error = error,
                              !.txn = s.txn]
  ELSE [s EXCEPT !.pc = "raised", !.error = error]

importFrame ==
  <<parser, full_text, invoice_data, pc, sec, row, today, run, first, other, date_call,
    upc, filename, overwrite, tmp_files, tmp_path, first_page, provider, data,
    existing, invoice_id, resp>>

InitImport ==
  /\ UploadIdle
  /\ parser = ""
  /\ full_text = <<>>
  /\ invoice_data = <<>>
  /\ pc = "off"
  /\ sec = 1
  /\ row = 1
  /\ today = 1
  /\ run = 1
  /\ first = NoOutcome
  /\ other = NoInstance
  /\ date_call = NoCall
  /\ imp = [c \in Connections |-> IdleConnection]

\* import_invoice_to_db(data, provider, overwrite) is called by an upload
I_import_invoice_to_db(c) ==
  /\ imp[c].pc = "idle" /\ imp[c].kind = ""
  /\ db.seq < MaxInvoiceId
  /\ \E r \in ImportRecords, ow \in BOOLEAN :
       imp' = [imp EXCEPT ![c] = [IdleConnection EXCEPT
                 !.kind = "api", !.rec = r.rec, !.prov = r.prov, !.ow = ow,
                 !.pc = "check"]]
  /\ UNCHANGED db
  /\ UNCHANGED importFrame

\* import_pdf(pdf_path, overwrite) is called on an importer, in the state its
\* connection was left in
I_import_pdf(c) ==
  /\ imp[c].pc = "idle" /\ imp[c].kind \in {"", "cli"}
  /\ View(c).seq < MaxInvoiceId
  /\ \E r \in ImportRecords, ow \in BOOLEAN :
       /\ r.prov = "Vodafone"
       /\ imp' = [imp EXCEPT ![c] = [IdleConnection EXCEPT
                    !.kind = "cli", !.rec = r.rec, !.prov = r.prov, !.ow = ow,
                    !.pc = "check", !.txn = imp[c].txn]]
  /\ UNCHANGED db
  /\ UNCHANGED importFrame

\* delete_invoice(invoice_id) is called
I_delete_invoice(c) ==
  /\ imp[c].pc = "idle" /\ imp[c].kind = ""
  /\ \E id \in 1..MaxInvoiceId :
       imp' = [imp EXCEPT ![c] = [IdleConnection EXCEPT
                 !.kind = "delete", !.invoice_id = id, !.pc = "select"]]
  /\ UNCHANGED db
  /\ UNCHANGED importFrame

\* I_check without the test of the number
I_check_passes_every_record(c) ==
  /\ imp[c].pc = "check"
  /\ imp' = [imp EXCEPT ![c].pc = "select"]
  /\ UNCHANGED db
  /\ UNCHANGED importFrame

\* if not invoice_number: raise ValueError
I_check(c) ==
  /\ imp[c].pc = "check"
  /\ imp' = [imp EXCEPT ![c] =
               IF NoInvoiceNumber(imp[c].rec.metadata)
               THEN Raised(@, "Could not extract invoice number")
               ELSE [@ EXCEPT !.pc = "select"]]
  /\ UNCHANGED db
  /\ UNCHANGED importFrame

\* the SELECT and the tests on the row it found
I_select(c) ==
  /\ imp[c].pc = "select"
  /\ LET s == imp[c]
         found == IF s.kind = "delete"
                  THEN (IF \E r \in View(c).invoices : r.id = s.invoice_id
                        THEN s.invoice_id ELSE 0)
                  ELSE select_invoice_id(View(c),
                                         Get(s.rec.metadata, "invoice_number", ""))
         t == [s EXCEPT !.found = found]
     IN  imp' = [imp EXCEPT ![c] =
           IF s.kind = "delete"
           THEN (IF found = 0 THEN Raised(t, "Invoice not found")
                 ELSE [t EXCEPT !.pc = "del_lines"])
           ELSE IF s.kind = "api"
           THEN (IF import_decision(found, s.ow) = "raise"
                 THEN Raised(t, "already exists")
                 ELSE IF import_decision(found, s.ow) = "replace"
                 THEN [t EXCEPT !.pc = "del_lines"]
                 ELSE [t EXCEPT !.pc = "insert"])
           ELSE (IF import_pdf_decision(found, s.ow) = "return"
                 THEN [t EXCEPT !.pc = "returned", !.invoice_id = found]
                 ELSE IF import_pdf_decision(found, s.ow) = "replace"
                 THEN [t EXCEPT !.pc = "del_lines"]
                 ELSE [t EXCEPT !.pc = "insert"])]
  /\ UNCHANGED db
  /\ UNCHANGED importFrame

\* one DELETE or INSERT is executed, the INSERTs of a table being taken as
\* one; it raises sqlite3.Error when another connection holds the write
\* lock, when the invoice number is stored, or for a cause outside the model
I_execute(c) ==
  /\ imp[c].pc \in {"del_lines", "del_ccs", "del_invoice", "insert", "lines", "ccs"}
  /\ \E fails \in BOOLEAN :
       LET s == imp[c]
           accepted ==
             s.pc = "insert" =>
               unique_invoice_number(View(c),
                                     Get(s.rec.metadata, "invoice_number", ""))
       IN  imp' = [imp EXCEPT ![c] =
             IF fails \/ Locked(c) \/ ~accepted
             THEN Raised(s, "sqlite3.Error")
             ELSE [s EXCEPT !.txn = <<Statement(s, View(c))>>,
                            !.pc = AfterStatement(s),
                            !.invoice_id = IF s.pc = "insert"
                                           THEN View(c).seq + 1 ELSE @]]
  /\ UNCHANGED db
  /\ UNCHANGED importFrame

\* conn.commit(): after the deletes in import_pdf, at the end of every call
I_commit(c) ==
  /\ imp[c].pc \in {"del_commit", "commit"}
  /\ \E fails \in BOOLEAN :
       IF fails
       THEN /\ imp' = [imp EXCEPT ![c] = Raised(@, "sqlite3.Error")]
            /\ db' = db
       ELSE /\ imp' = [imp EXCEPT ![c] =
                         [@ EXCEPT !.txn = <<>>,
                                   !.pc = IF @ = "del_commit" THEN "insert"
                                          ELSE "returned"]]
            /\ db' = View(c)
  /\ UNCHANGED importFrame

\* the call is over. The connection of import_invoice_to_db and of
\* delete_invoice is closed or dropped, which rolls its transaction back;
\* that of the importer stays as the call left it.
I_over(c) ==
  /\ imp[c].pc \in {"returned", "raised"}
  /\ imp' = [imp EXCEPT ![c] =
               IF imp[c].kind = "cli" /\ imp[c].txn # <<>>
               THEN [IdleConnection EXCEPT !.kind = "cli", !.txn = imp[c].txn]
               ELSE IdleConnection]
  /\ UNCHANGED db
  /\ UNCHANGED importFrame

\* InvoiceImporter.close()
I_close(c) ==
  /\ imp[c].pc = "idle" /\ imp[c].kind = "cli"
  /\ imp' = [imp EXCEPT ![c] = IdleConnection]
  /\ UNCHANGED db
  /\ UNCHANGED importFrame

NextImport ==
  \E c \in Connections :
     \/ I_import_invoice_to_db(c)
     \/ I_import_pdf(c)
     \/ I_delete_invoice(c)
     \/ I_check(c)
     \/ I_select(c)
     \/ I_execute(c)
     \/ I_commit(c)
     \/ I_over(c)
     \/ I_close(c)

SpecImport == InitImport /\ [][NextImport]_vars

----------------------------------------------------------------------------
(* Properties of the imports *)

\* the invoice number of the record a call was given, "" when it has none
CallNumber(s) == Get(s.rec.metadata, "invoice_number", "")

\* database d holds the whole of the record of s under invoice id
StoredCompletely(d, s, id) ==
  /\ \E r \in d.invoices : r.id = id /\ r.invoice_number = CallNumber(s)
  /\ mobile_line_rows(id, s.rec) \subseteq d.mobile_lines
  /\ cost_centre_rows(id, s.rec) \subseteq d.cost_centres

NoOrphanRows(d) ==
  /\ \A r \in d.mobile_lines : \E i \in d.invoices : i.id = r.invoice_id
  /\ \A r \in d.cost_centres : \E i \in d.invoices : i.id = r.invoice_id

\* C24: whatever calls of the imports and of delete_invoice have ended or
\* failed, every committed row of mobile_lines and of cost_centres carries the
\* id of a committed row of invoices.
C24_NoOrphanedRows == NoOrphanRows(db)

\* C24 witness: an import with overwrite has raised after deleting the stored
\* invoice in its transaction, and the committed tables still hold the
\* invoice with its line.
C24_Witness ==
  \E c \in Connections :
     /\ imp[c].kind = "api" /\ imp[c].pc = "raised" /\ imp[c].ow
     /\ imp[c].txn # <<>> /\ imp[c].txn[1].invoices = {}
     /\ \E i \in db.invoices : \E r \in db.mobile_lines : r.invoice_id = i.id

\* C25: a step of import_pdf with overwrite = True takes the stored invoice
\* of the call's number out of the committed database only when it puts the
\* whole of the new record there, so that a failing INSERT leaves the old
\* invoice stored.
C25_OldDataLostOnlyWhenReplaced ==
  [][ \A c \in Connections :
        ( /\ imp[c].kind = "cli" /\ imp[c].ow /\ imp[c].pc # "idle"
          /\ imp'[c] # imp[c]
          /\ \E r \in db.invoices :
                r.invoice_number = CallNumber(imp[c]) /\ r \notin db'.invoices )
        => \E n \in db'.invoices : StoredCompletely(db', imp[c], n.id)
    ]_vars

\* C26: a step of import_invoice_to_db changes the committed database only
\* when it is the commit that ends the call, and then the replaced invoice
\* is gone with its rows and the new one is there with all of its rows; a
\* step that raises leaves the committed database as it was.
C26_ImportAllOrNothing ==
  [][ \A c \in Connections :
        (imp[c].kind = "api" /\ imp'[c] # imp[c]) =>
           IF imp'[c].pc = "returned"
           THEN /\ imp[c].pc = "commit"
                /\ StoredCompletely(db', imp[c], imp[c].invoice_id)
                /\ imp[c].found # 0 =>
                      /\ \A r \in db'.invoices : r.id # imp[c].found
                      /\ \A r \in db'.mobile_lines : r.invoice_id # imp[c].found
                      /\ \A r \in db'.cost_centres : r.invoice_id # imp[c].found
           ELSE db' = db
    ]_vars

\* C26 witness: an import with overwrite has deleted the stored invoice and
\* is about to insert; the committed database still holds the invoice.
C26_Witness ==
  \E c \in Connections :
     /\ imp[c].kind = "api" /\ imp[c].pc = "insert" /\ imp[c].found # 0
     /\ imp[c].txn # <<>> /\ imp[c].txn[1].invoices = {}
     /\ \E r \in db.invoices : r.id = imp[c].found

\* what the committed tables hold is of the records imported, one invoice to
\* a number
OneInvoicePerNumber ==
  /\ \A r1, r2 \in db.invoices : r1.invoice_number = r2.invoice_number => r1 = r2
  /\ NoOrphanRows(db)
  /\ \A i \in db.invoices : \E r \in ImportRecords :
        /\ Get(r.rec.metadata, "invoice_number", "") = i.invoice_number
        /\ { l \in db.mobile_lines : l.invoice_id = i.id } \subseteq mobile_line_rows(i.id, r.rec)
        /\ { l \in db.cost_centres : l.invoice_id = i.id } \subseteq cost_centre_rows(i.id, r.rec)

\* C27: when two uploads of one invoice number that is not stored run at the
\* same time without the overwrite flag, the one that comes to its INSERT
\* when the other has stored the number is refused and changes nothing; and
\* the database never holds two invoices of one number, nor rows that are not
\* of the one invoice of their number.
C27_OneOfTwoUploadsStored ==
  /\ [] OneInvoicePerNumber
  /\ [][ \A c \in Connections :
          ( /\ imp[c].kind = "api" /\ ~imp[c].ow
            /\ imp[c].pc = "insert" /\ imp[c].found = 0
            /\ imp'[c] # imp[c]
            /\ \E r \in db.invoices : r.invoice_number = CallNumber(imp[c]) )
          => (imp'[c].pc = "raised" /\ db' = db)
      ]_vars

\* C27 witness: two uploads of one number both found it not stored; the first
\* has stored it and the second has been refused by the database.
C27_Witness ==
  /\ imp[1].kind = "api" /\ imp[2].kind = "api"
  /\ ~imp[1].ow /\ ~imp[2].ow
  /\ CallNumber(imp[1]) = CallNumber(imp[2])
  /\ imp[1].found = 0 /\ imp[2].found = 0
  /\ imp[1].pc = "returned"
  /\ imp[2].pc = "raised" /\ imp[2].error = "sqlite3.Error" /\ imp[2].txn = <<>>
  /\ Cardinality(db.invoices) = 1

\* C28: a record without an invoice number gets no further than the test of
\* the number, in import_invoice_to_db and in import_pdf, where the call
\* raises having written nothing; and no row of invoices, committed or in a
\* transaction, has an empty invoice_number.
C28_NumberlessNeverStored ==
  /\ \A r \in db.invoices : r.invoice_number # ""
  /\ \A c \in Connections :
        /\ \A r \in View(c).invoices : r.invoice_number # ""
        /\ ( /\ imp[c].kind \in {"api", "cli"} /\ imp[c].pc # "idle"
             /\ "invoice_number" \notin DOMAIN imp[c].rec.metadata )
           => /\ imp[c].pc \in {"check", "raised"}
              /\ imp[c].pc = "raised" => imp[c].error = "Could not extract invoice number"
              /\ imp[c].kind = "api" => imp[c].txn = <<>>

\* C28 witness: both imports have raised on a record without a number, an
\* invoice being stored.
C28_Witness ==
  /\ db.invoices # {}
  /\ \E c1, c2 \in Connections :
        /\ imp[c1].kind = "api" /\ imp[c2].kind = "cli"
        /\ \A c \in {c1, c2} :
              /\ "invoice_number" \notin DOMAIN imp[c].rec.metadata
              /\ imp[c].pc = "raised"

\* C30: import_pdf with overwrite = False, for an invoice number its SELECT
\* finds, returns the id of the row found, and its steps leave the committed
\* tables and the connection's transaction as they were.
C30_ExistingInvoiceReturned ==
  [][ \A c \in Connections :
        ( /\ imp[c].kind = "cli" /\ ~imp[c].ow
          /\ imp[c].pc \in {"check", "select"}
          /\ imp'[c] # imp[c]
          /\ select_invoice_id(View(c), CallNumber(imp[c])) # 0 )
        => /\ db' = db
           /\ imp'[c].txn = imp[c].txn
           /\ imp'[c].pc = (IF imp[c].pc = "check" THEN "select" ELSE "returned")
           /\ imp'[c].pc = "returned" =>
                 imp'[c].invoice_id = select_invoice_id(View(c), CallNumber(imp[c]))
    ]_vars

\* C30 witness: import_pdf without overwrite has returned the id of the
\* stored invoice.
C30_Witness ==
  \E c \in Connections :
     /\ imp[c].kind = "cli" /\ ~imp[c].ow /\ imp[c].pc = "returned"
     /\ imp[c].found # 0 /\ imp[c].invoice_id = imp[c].found
     /\ \E r \in db.invoices : r.id = imp[c].found

====
